---- MODULE Spec2Model ----
(***************************************************************************)
(* MonitoRSS: the refresh scheduler (ScheduleHandlerService), the feed     *)
(* fetcher (FeedFetcherService) and the Discord delivery medium.           *)
(*                                                                         *)
(* Every `await` of the TypeScript source is a suspension point, so every  *)
(* handler is a process whose position is kept in a pc field and whose     *)
(* steps are the stretches of code between two awaits.                     *)
(***************************************************************************)
EXTENDS Integers, Sequences, FiniteSets

(***************************************************************************)
(* Bounds of the model                                                     *)
(***************************************************************************)
\* feeds in a store whose fields are drawn freely
MaxSmallFeeds == 2
\* feeds in a store of distinct urls (more than two full batches)
MaxLargeFeeds == 52
\* group keys up to this many are yielded by the cursor in every order
MaxPermuted == 3

(***************************************************************************)
(* Program constants                                                       *)
(***************************************************************************)
\* if (urlBatch.length === 25)
BatchSize == 25
\* BACKEND_API_DEFAULT_REFRESH_RATE_MINUTES * 60 (10 minutes)
defaultRefreshRateSeconds == 600
\* supportersService.maxDailyArticlesDefault
maxDailyArticlesDefault == 50
\* the falsy _id of a $group over feeds without url; skipped by `if (!url)`
NoUrl == 0

Users == {"u1", "u2"}
\* the process-wide default and one supporter tier
Rates == {defaultRefreshRateSeconds, 120}
Quotas == {maxDailyArticlesDefault, 500}
CycleIds == {"c1", "c2"}
\* the invocations a specification lets run
OneCycle == {"c1"}

VARIABLES
    feeds,      \* userFeedModel: sequence of feed documents
    benefitsOfAllDiscordUsers, \* what supportersService returns: user -> benefits
    cyc,        \* per handleRefreshRate invocation: position and locals
    orphans,    \* bulk updates still in flight after their sync rejected
    rrCompleted,  \* ghost: a syncRefreshRates run has completed
    mdaCompleted  \* ghost: a syncMaxDailyArticles run has completed

VARIABLES
    requests,     \* requestRepo: the Request entities handed to persist, in order
    responses,    \* responseRepo: the Response entities handed to persist
    cache,        \* cacheStorageService: key -> compressed body
    objectStorage,  \* objectFileStorageService: the uploaded {key, body}
    clock,        \* the number of Request entities created so far
    uuids,        \* the number of randomUUID() calls so far
    fetches       \* per fetchAndSaveResponse invocation: position and locals

schedVars == <<feeds, benefitsOfAllDiscordUsers, cyc, orphans, rrCompleted, mdaCompleted>>
fetchVars == <<requests, responses, cache, objectStorage, clock, uuids, fetches>>

\* FeedFetcherService.getLatestRequest: the calls in flight
VARIABLES reads

readVars == <<reads>>

\* DiscordMediumService: the deliveries in flight, the calls the producer
\* received, the delivery ids handed out, and one generateApiPayloads call
VARIABLES deliveries, producerLog, deliveryClock, gen

deliveryVars == <<deliveries, producerLog, deliveryClock, gen>>

\* DiscordUsersService: the call in progress
VARIABLES discord
usersVars == <<discord>>
vars == <<schedVars, fetchVars, readVars, deliveryVars, usersVars>>

(***************************************************************************)
(* Helpers over sequences and sets                                         *)
(***************************************************************************)
Range(s) == {s[i] : i \in DOMAIN s}

RECURSIVE Flatten(_)
Flatten(ss) == IF ss = <<>> THEN <<>> ELSE Head(ss) \o Flatten(Tail(ss))

RECURSIVE Asc(_)
Asc(S) ==
    IF S = {} THEN <<>>
    ELSE LET m == CHOOSE x \in S : \A y \in S : x <= y
         IN <<m>> \o Asc(S \ {m})

RECURSIVE Desc(_)
Desc(S) ==
    IF S = {} THEN <<>>
    ELSE LET m == CHOOSE x \in S : \A y \in S : x >= y
         IN <<m>> \o Desc(S \ {m})

Orderings(S) ==
    {s \in [1..Cardinality(S) -> S] :
        \A i, j \in 1..Cardinality(S) : i # j => s[i] # s[j]}

\* a $group stage yields its keys in an unspecified order
CursorOrders(S) ==
    IF Cardinality(S) <= MaxPermuted THEN Orderings(S) ELSE {Asc(S), Desc(S)}

CeilDiv(n, d) == (n + d - 1) \div d

(***************************************************************************)
(* ScheduleHandlerService: entitlement sync                                *)
(***************************************************************************)
\* benefits.filter(({ isSupporter }) => isSupporter)
validSupportersNoFilter(benefits) == Users
validSupporters(benefits) == {u \in Users : benefits[u].isSupporter}

\* the Map value -> discordUserIds built over validSupporters, as its entries
supportersBy(benefits, field) ==
    {[value |-> v,
      ids |-> {u \in validSupporters(benefits) : benefits[u][field] = v}] :
        v \in {benefits[u][field] : u \in validSupporters(benefits)}}

\* filter of a per-group updateMany: { $in: discordUserIds }, { $ne: value }
GroupFilter(f, field, g) == f.user \in g.ids /\ f[field] # g.value

\* filter of the final updateMany: { $nin: specialDiscordUserIds }, { $ne: default }
ResetFilterNoNin(f, field, special, default) == f[field] # default
ResetFilter(f, field, special, default) ==
    f.user \notin special /\ f[field] # default

\* updateMany(filter, { $set: { field: value } }) for a group
updateManyGroup(fs, field, g) ==
    [i \in DOMAIN fs |->
        IF GroupFilter(fs[i], field, g) THEN [fs[i] EXCEPT ![field] = g.value]
        ELSE fs[i]]

\* updateMany(filter, { $set: { field: default } }) for everyone else
updateManyResetSkipped(fs, field, special, default) == fs
updateManyReset(fs, field, special, default) ==
    [i \in DOMAIN fs |->
        IF ResetFilter(fs[i], field, special, default)
        THEN [fs[i] EXCEPT ![field] = default]
        ELSE fs[i]]

\* nModified of an updateMany
Modified(old, new) == Cardinality({i \in DOMAIN old : old[i] # new[i]})

\* await Promise.all(...): every per-group update has resolved
PromiseAllNotAwaited(c) == TRUE
PromiseAllResolved(c) == cyc[c].pending = {}

(***************************************************************************)
(* ScheduleHandlerService: the url query                                   *)
(***************************************************************************)
\* getCommonFeedAggregateStages({ refreshRateSeconds }): feeds of that rate
MatchesRefreshRate(f, refreshRateSeconds) ==
    f.refreshRateSeconds = refreshRateSeconds

\* $group: { _id: "$url" }: one key per distinct url of the matching feeds
UrlGroupKeys(fs, refreshRateSeconds) ==
    {fs[i].url : i \in {j \in DOMAIN fs : MatchesRefreshRate(fs[j], refreshRateSeconds)}}

\* getUrlsQueryMatchingRefreshRate(refreshRateSeconds).cursor(): the sequences
\* of _id values the cursor may yield
UrlsQueryWithoutGroup(fs, refreshRateSeconds) ==
    {LET idx == Asc({j \in DOMAIN fs : MatchesRefreshRate(fs[j], refreshRateSeconds)})
     IN  [k \in DOMAIN idx |-> fs[idx[k]].url]}
getUrlsQueryMatchingRefreshRate(fs, refreshRateSeconds) ==
    CursorOrders(UrlGroupKeys(fs, refreshRateSeconds))

\* urlBatch.length === 25
BatchFullOffByOne(urlBatch) == Len(urlBatch) = BatchSize + 1
BatchFull(urlBatch) == Len(urlBatch) = BatchSize

\* if (!url) continue
SkipsUrl(url) == url = NoUrl

\* urlBatch.length > 0
FlushesFinal(urlBatch) == Len(urlBatch) > 0

(***************************************************************************)
(* Initial states                                                          *)
(***************************************************************************)
BenefitRecs ==
    [isSupporter : BOOLEAN, refreshRateSeconds : Rates, maxDailyArticles : Quotas]

\* snapshots that vary in one benefit only; the other one is the supporter tier's
RateBenefitRecs == {b \in BenefitRecs : b.maxDailyArticles = 500}
QuotaBenefitRecs == {b \in BenefitRecs : b.refreshRateSeconds = 120}
\* a lapsed and an active supporter of the fast tier
TierBenefitRecs == RateBenefitRecs \cap QuotaBenefitRecs

\* a store of n feeds of distinct urls (feed i has url i, the first one is
\* debugged) whose owners and stored assignments are those of a
StoreOf(n, a) ==
    [i \in 1..n |->
        [user |-> a[i].user, url |-> i,
         refreshRateSeconds |-> a[i].refreshRateSeconds,
         maxDailyArticles |-> a[i].maxDailyArticles, debug |-> (i = 1)]]

\* owners and stored refresh rates are arbitrary (syncRefreshRates reads and
\* writes refreshRateSeconds only)
RateStores ==
    UNION {{StoreOf(n, a) :
            a \in [1..n -> [user : Users, refreshRateSeconds : Rates,
                            maxDailyArticles : {maxDailyArticlesDefault}]]} :
           n \in 0..MaxSmallFeeds}

\* owners and stored quotas are arbitrary (syncMaxDailyArticles reads and
\* writes maxDailyArticles only)
QuotaStores ==
    UNION {{StoreOf(n, a) :
            a \in [1..n -> [user : Users, refreshRateSeconds : {defaultRefreshRateSeconds},
                            maxDailyArticles : Quotas]]} :
           n \in 0..MaxSmallFeeds}

\* urls repeat or are missing; owners and stored refresh rates are arbitrary
UrlStores ==
    UNION {{[i \in 1..n |-> [a[i] EXCEPT !.debug = (i = 1)]] :
            a \in [1..n -> [user : Users, url : {NoUrl, 1, 2},
                            refreshRateSeconds : Rates,
                            maxDailyArticles : {maxDailyArticlesDefault},
                            debug : {FALSE}]]} :
           n \in 0..MaxSmallFeeds}

\* up to MaxLargeFeeds distinct urls of one owner, all of one stored rate
LargeStores ==
    {StoreOf(n, [i \in 1..n |->
                    [user |-> "u1", refreshRateSeconds |-> r,
                     maxDailyArticles |-> maxDailyArticlesDefault]]) :
        n \in 0..MaxLargeFeeds, r \in Rates}

IdleCycle ==
    [pc |-> "idle", refreshRateSeconds |-> defaultRefreshRateSeconds,
     allBenefits |-> <<>>, pending |-> {}, specialDiscordUserIds |-> {},
     urlsToDebug |-> {}, urlsCursor |-> <<>>, urlBatch |-> <<>>,
     \* ghosts
     cursorSeq |-> <<>>, dispatched |-> <<>>, resolved |-> 0,
     rrDone |-> FALSE, mdaDone |-> FALSE, opened |-> FALSE,
     rrModified |-> 0, rrAfterComplete |-> FALSE, unsettled |-> 0,
     rejectedSync |-> "none"]

SchedIdle ==
    /\ cyc = [c \in CycleIds |-> IdleCycle]
    /\ orphans = {}
    /\ rrCompleted = FALSE
    /\ mdaCompleted = FALSE

SchedInit ==
    /\ \/ /\ feeds \in RateStores
          /\ benefitsOfAllDiscordUsers \in [Users -> RateBenefitRecs]
       \/ /\ feeds \in QuotaStores
          /\ benefitsOfAllDiscordUsers \in [Users -> QuotaBenefitRecs]
       \/ /\ feeds \in UrlStores \cup LargeStores
          /\ benefitsOfAllDiscordUsers \in [Users -> TierBenefitRecs]
    /\ SchedIdle

(***************************************************************************)
(* ScheduleHandlerService.handleRefreshRate                                *)
(***************************************************************************)
SetCyc(c, r) == cyc' = [cyc EXCEPT ![c] = r] /\ UNCHANGED <<fetchVars, readVars, deliveryVars, usersVars>>

\* handleRefreshRate is called: allBenefits is fetched and syncRefreshRates
\* builds its groups and issues one updateMany per group
HandleRefreshRate(c, refreshRateSeconds) ==
    /\ cyc[c].pc = "idle"
    /\ SetCyc(c, [IdleCycle EXCEPT
            !.pc = "syncRefreshRates",
            !.refreshRateSeconds = refreshRateSeconds,
            !.allBenefits = benefitsOfAllDiscordUsers,
            !.pending = supportersBy(benefitsOfAllDiscordUsers, "refreshRateSeconds"),
            !.unsettled = Cardinality(
                supportersBy(benefitsOfAllDiscordUsers, "refreshRateSeconds")),
            !.rrAfterComplete = rrCompleted])
    /\ UNCHANGED <<feeds, benefitsOfAllDiscordUsers, orphans, rrCompleted, mdaCompleted>>

SyncField(c) ==
    IF cyc[c].pc = "syncRefreshRates" THEN "refreshRateSeconds" ELSE "maxDailyArticles"

\* one per-group updateMany resolves; its ids are pushed to specialDiscordUserIds
GroupUpdateResolvesNoPush(c, g) ==
    /\ cyc[c].pc \in {"syncRefreshRates", "syncMaxDailyArticles"}
    /\ g \in cyc[c].pending
    /\ feeds' = updateManyGroup(feeds, SyncField(c), g)
    /\ SetCyc(c, [cyc[c] EXCEPT
            !.pending = @ \ {g},
            !.unsettled = @ - 1,
            !.rrModified = IF cyc[c].pc = "syncRefreshRates"
                           THEN @ + Modified(feeds, feeds') ELSE @])
    /\ UNCHANGED <<benefitsOfAllDiscordUsers, orphans, rrCompleted, mdaCompleted>>
GroupUpdateResolves(c, g) ==
    /\ cyc[c].pc \in {"syncRefreshRates", "syncMaxDailyArticles"}
    /\ g \in cyc[c].pending
    /\ feeds' = updateManyGroup(feeds, SyncField(c), g)
    /\ SetCyc(c, [cyc[c] EXCEPT
            !.pending = @ \ {g},
            !.unsettled = @ - 1,
            !.specialDiscordUserIds = @ \cup g.ids,
            !.rrModified = IF cyc[c].pc = "syncRefreshRates"
                           THEN @ + Modified(feeds, feeds') ELSE @])
    /\ UNCHANGED <<benefitsOfAllDiscordUsers, orphans, rrCompleted, mdaCompleted>>

\* one per-group updateMany rejects: Promise.all, the sync and the cycle reject;
\* the other updates are still in flight
GroupUpdateRejectsSwallowed(c, g) ==
    /\ cyc[c].pc \in {"syncRefreshRates", "syncMaxDailyArticles"}
    /\ g \in cyc[c].pending
    /\ orphans' = orphans
    /\ SetCyc(c, [cyc[c] EXCEPT !.pending = @ \ {g}, !.unsettled = @ - 1,
                                !.specialDiscordUserIds = @ \cup g.ids,
                                !.rejectedSync = cyc[c].pc])
    /\ UNCHANGED <<feeds, benefitsOfAllDiscordUsers, rrCompleted, mdaCompleted>>
GroupUpdateRejects(c, g) ==
    /\ cyc[c].pc \in {"syncRefreshRates", "syncMaxDailyArticles"}
    /\ g \in cyc[c].pending
    /\ orphans' = orphans \cup
            {[field |-> SyncField(c), group |-> h] : h \in cyc[c].pending \ {g}}
    /\ SetCyc(c, [cyc[c] EXCEPT !.pc = "rejected", !.pending = {},
                                !.rejectedSync = cyc[c].pc])
    /\ UNCHANGED <<feeds, benefitsOfAllDiscordUsers, rrCompleted, mdaCompleted>>

\* an update left in flight by a rejected sync commits
OrphanUpdateCommits(o) ==
    /\ o \in orphans
    /\ feeds' = updateManyGroup(feeds, o.field, o.group)
    /\ orphans' = orphans \ {o}
    /\ UNCHANGED <<benefitsOfAllDiscordUsers, cyc, rrCompleted, mdaCompleted>>
    /\ UNCHANGED <<fetchVars, readVars, deliveryVars, usersVars>>

\* the final updateMany of syncRefreshRates resolves; syncMaxDailyArticles
\* builds its groups and issues its updates
SyncRefreshRatesReset(c) ==
    /\ cyc[c].pc = "syncRefreshRates"
    /\ PromiseAllResolved(c)
    /\ feeds' = updateManyReset(feeds, "refreshRateSeconds",
                    cyc[c].specialDiscordUserIds, defaultRefreshRateSeconds)
    /\ SetCyc(c, [cyc[c] EXCEPT
            !.pc = "syncMaxDailyArticles",
            !.pending = supportersBy(cyc[c].allBenefits, "maxDailyArticles"),
            !.unsettled = @ + Cardinality(
                supportersBy(cyc[c].allBenefits, "maxDailyArticles")),
            !.specialDiscordUserIds = {},
            !.rrDone = TRUE,
            !.rrModified = @ + Modified(feeds, feeds')])
    /\ rrCompleted' = TRUE
    /\ UNCHANGED <<benefitsOfAllDiscordUsers, orphans, mdaCompleted>>

\* the final updateMany (of either sync) rejects
ResetRejects(c) ==
    /\ cyc[c].pc \in {"syncRefreshRates", "syncMaxDailyArticles"}
    /\ PromiseAllResolved(c)
    /\ SetCyc(c, [cyc[c] EXCEPT !.pc = "rejected"])
    /\ UNCHANGED <<feeds, benefitsOfAllDiscordUsers, orphans, rrCompleted, mdaCompleted>>

\* the final updateMany of syncMaxDailyArticles resolves; find({debug: true})
\* is issued
SyncMaxDailyArticlesReset(c) ==
    /\ cyc[c].pc = "syncMaxDailyArticles"
    /\ PromiseAllResolved(c)
    /\ feeds' = updateManyReset(feeds, "maxDailyArticles",
                    cyc[c].specialDiscordUserIds, maxDailyArticlesDefault)
    /\ SetCyc(c, [cyc[c] EXCEPT !.pc = "findDebug", !.mdaDone = TRUE])
    /\ mdaCompleted' = TRUE
    /\ UNCHANGED <<benefitsOfAllDiscordUsers, orphans, rrCompleted>>

\* feedsToDebug resolves; urlsToDebug is built and the cursor is created
FindFeedsToDebug(c) ==
    /\ cyc[c].pc = "findDebug"
    /\ SetCyc(c, [cyc[c] EXCEPT
            !.pc = "openCursor",
            !.urlsToDebug = {feeds[i].url : i \in {j \in DOMAIN feeds : feeds[j].debug}},
            !.urlBatch = <<>>])
    /\ UNCHANGED <<feeds, benefitsOfAllDiscordUsers, orphans, rrCompleted, mdaCompleted>>

\* the first pull of the cursor runs the aggregation
OpenCursor(c) ==
    /\ cyc[c].pc = "openCursor"
    /\ \E order \in getUrlsQueryMatchingRefreshRate(feeds, cyc[c].refreshRateSeconds) :
          SetCyc(c, [cyc[c] EXCEPT
              !.pc = "iterate", !.urlsCursor = order, !.cursorSeq = order,
              !.opened = TRUE])
    /\ UNCHANGED <<feeds, benefitsOfAllDiscordUsers, orphans, rrCompleted, mdaCompleted>>

\* one turn of the for-await loop, up to its next await
CursorNextNotAwaited(c) ==
    /\ cyc[c].pc = "iterate"
    /\ cyc[c].urlsCursor # <<>>
    /\ LET url == Head(cyc[c].urlsCursor)
           pushed == Append(cyc[c].urlBatch,
                        [url |-> url, saveToObjectStorage |-> url \in cyc[c].urlsToDebug])
       IN  IF SkipsUrl(url)
           THEN SetCyc(c, [cyc[c] EXCEPT !.urlsCursor = Tail(@)])
           ELSE IF BatchFull(pushed)
           THEN SetCyc(c, [cyc[c] EXCEPT
                    !.urlsCursor = Tail(@), !.urlBatch = <<>>,
                    !.dispatched = Append(@, pushed)])
           ELSE SetCyc(c, [cyc[c] EXCEPT !.urlsCursor = Tail(@), !.urlBatch = pushed])
    /\ UNCHANGED <<feeds, benefitsOfAllDiscordUsers, orphans, rrCompleted, mdaCompleted>>
CursorNext(c) ==
    /\ cyc[c].pc = "iterate"
    /\ cyc[c].urlsCursor # <<>>
    /\ LET url == Head(cyc[c].urlsCursor)
           pushed == Append(cyc[c].urlBatch,
                        [url |-> url, saveToObjectStorage |-> url \in cyc[c].urlsToDebug])
       IN  IF SkipsUrl(url)
           THEN SetCyc(c, [cyc[c] EXCEPT !.urlsCursor = Tail(@)])
           ELSE IF BatchFull(pushed)
           THEN SetCyc(c, [cyc[c] EXCEPT
                    !.urlsCursor = Tail(@), !.urlBatch = pushed,
                    !.pc = "urlsHandler",
                    !.dispatched = Append(@, pushed)])
           ELSE SetCyc(c, [cyc[c] EXCEPT !.urlsCursor = Tail(@), !.urlBatch = pushed])
    /\ UNCHANGED <<feeds, benefitsOfAllDiscordUsers, orphans, rrCompleted, mdaCompleted>>

\* the cursor is exhausted: the partial batch, if any, is handed over
CursorExhausted(c) ==
    /\ cyc[c].pc = "iterate"
    /\ cyc[c].urlsCursor = <<>>
    /\ IF FlushesFinal(cyc[c].urlBatch)
       THEN SetCyc(c, [cyc[c] EXCEPT
                !.pc = "urlsHandlerFinal",
                !.dispatched = Append(@, cyc[c].urlBatch)])
       ELSE SetCyc(c, [cyc[c] EXCEPT !.pc = "done"])
    /\ UNCHANGED <<feeds, benefitsOfAllDiscordUsers, orphans, rrCompleted, mdaCompleted>>

\* await urlsHandler(urlBatch) resolves
UrlsHandlerResolves(c) ==
    /\ cyc[c].pc \in {"urlsHandler", "urlsHandlerFinal"}
    /\ SetCyc(c, [cyc[c] EXCEPT
            !.pc = IF cyc[c].pc = "urlsHandler" THEN "iterate" ELSE "done",
            !.urlBatch = IF cyc[c].pc = "urlsHandler" THEN <<>> ELSE @,
            !.resolved = @ + 1])
    /\ UNCHANGED <<feeds, benefitsOfAllDiscordUsers, orphans, rrCompleted, mdaCompleted>>

\* await urlsHandler(urlBatch) rejects: the cycle rejects
UrlsHandlerRejects(c) ==
    /\ cyc[c].pc \in {"urlsHandler", "urlsHandlerFinal"}
    /\ SetCyc(c, [cyc[c] EXCEPT !.pc = "rejected"])
    /\ UNCHANGED <<feeds, benefitsOfAllDiscordUsers, orphans, rrCompleted, mdaCompleted>>

\* the promise of handleRefreshRate has settled; the interval fires again
CycleSettled(c) ==
    /\ cyc[c].pc \in {"done", "rejected"}
    /\ SetCyc(c, IdleCycle)
    /\ UNCHANGED <<feeds, benefitsOfAllDiscordUsers, orphans, rrCompleted, mdaCompleted>>

CycleStep(c) ==
    \/ \E r \in Rates : HandleRefreshRate(c, r)
    \/ \E g \in cyc[c].pending : GroupUpdateResolves(c, g)
    \/ \E g \in cyc[c].pending : GroupUpdateRejects(c, g)
    \/ SyncRefreshRatesReset(c)
    \/ SyncMaxDailyArticlesReset(c)
    \/ ResetRejects(c)
    \/ FindFeedsToDebug(c)
    \/ OpenCursor(c)
    \/ CursorNext(c)
    \/ CursorExhausted(c)
    \/ UrlsHandlerResolves(c)
    \/ UrlsHandlerRejects(c)
    \/ CycleSettled(c)

SchedNext ==
    \/ \E c \in OneCycle : CycleStep(c)
    \/ \E o \in orphans : OrphanUpdateCommits(o)

\* the supporters service answers getBenefitsOfAllDiscordUsers differently
\* from now on: a subscription started, lapsed or changed its tier
BenefitsChange(benefits) ==
    /\ benefits # benefitsOfAllDiscordUsers
    /\ benefitsOfAllDiscordUsers' = benefits
    /\ UNCHANGED <<feeds, cyc, orphans, rrCompleted, mdaCompleted>>
    /\ UNCHANGED <<fetchVars, readVars, deliveryVars, usersVars>>

\* the answers of the supporters service over time: the first user's
\* subscription to the fast tier starts or lapses, the second user's stays
ConcurrentSnapshots ==
    {b \in [Users -> RateBenefitRecs] :
        /\ b["u1"].refreshRateSeconds = 120
        /\ b["u2"].isSupporter
        /\ b["u2"].refreshRateSeconds = defaultRefreshRateSeconds}

\* the cycles of the tiers run side by side while the entitlements change
ConcurrentNext ==
    \/ \E c \in CycleIds : CycleStep(c)
    \/ \E o \in orphans : OrphanUpdateCommits(o)
    \/ \E benefits \in ConcurrentSnapshots : BenefitsChange(benefits)

(***************************************************************************)
(* FeedFetcherService: values                                              *)
(***************************************************************************)
FetchIds == {"f1", "f2"}
OneFetch == {"f1"}
FetchUrls == {"https://example.com/feed.xml", "https://example.org/rss"}

\* HttpStatus.NOT_MODIFIED
NOT_MODIFIED == 304
\* res.ok: the status is in the range 200-299
ResOk(status) == status >= 200 /\ status <= 299

\* if (res.ok || res.status === HttpStatus.NOT_MODIFIED)
StatusOfIgnoring304(status) == IF ResOk(status) THEN "OK" ELSE "BAD_STATUS_CODE"
StatusOf(status) ==
    IF ResOk(status) \/ status = NOT_MODIFIED THEN "OK" ELSE "BAD_STATUS_CODE"

\* catch (err) around decode and size check: FeedTooLargeException gives
\* REFUSED_LARGE_FEED, anything else PARSE_ERROR
StatusOnBodyErrorLeftOk(tooLarge) == "OK"
StatusOnBodyError(tooLarge) ==
    IF tooLarge THEN "REFUSED_LARGE_FEED" ELSE "PARSE_ERROR"

\* err instanceof FetchError && err.type === 'request-timeout'
IsTimeout(err) == err.fetchError /\ err.type = "request-timeout"

\* the decoded bodies a response may carry; the last one stands for a body
\* of 4 MiB
Bodies == {"", "<rss>1</rss>", "<rss>4MiB</rss>"}
\* text of a response that was not decoded: let text: string | null = null
Null == "null"

\* Buffer.byteLength(text)
ByteLength(text) ==
    CASE text = "" -> 0
      [] text = "<rss>1</rss>" -> 12
      [] text = "<rss>4MiB</rss>" -> 4 * 1024 * 1024
      [] OTHER -> Len(text)

\* the ceiling of the disabled check: // if (sizeOfTextInMb > 3)
MaxFeedSizeMb == 3
TooLarge(text) == ByteLength(text) > MaxFeedSizeMb * 1024 * 1024

\* (await deflatePromise(text)).toString('base64'), and its inverse
\* (await inflatePromise(Buffer.from(compressedText, 'base64'))).toString()
Deflate(text) == <<"deflate", "base64", text>>
Inflate(compressedText) == compressedText[3]

\* sha1.copy().update(url).digest('hex')
Sha1(data) == <<"sha1", data>>
\* text ? sha1.copy().update(text).digest('hex') : ''
\* (the empty string of the else branch is kept apart from an unset field)
TextHash(text) == IF text # "" THEN Sha1(text) ELSE <<"">>
\* randomUUID(): the n-th call
UuidRepeated(n) == <<"uuid", 0>>
Uuid(n) == <<"uuid", n>>

NoEntry == <<>>
NoKey == <<>>
NoResponse == [none |-> TRUE]
NoRequest == [none |-> TRUE]
NoRes == [none |-> TRUE]
NoErr == [none |-> TRUE]
NoOptions == [flushEntities |-> FALSE, saveResponseToObjectStorage |-> FALSE]

\* the options of a call
FetchOptionSets == [flushEntities : BOOLEAN, saveResponseToObjectStorage : BOOLEAN]
\* what the outbound GET may resolve with
HttpResponses ==
    [status : {200, 204, NOT_MODIFIED, 404},
     etag : {"W/1"}, lastModified : {""}, server : {"cloudflare"}]
\* what the outbound GET may throw
FetchErrors ==
    {[fetchError |-> TRUE, type |-> "request-timeout", message |-> "network timeout"],
     [fetchError |-> TRUE, type |-> "system", message |-> "ECONNREFUSED"],
     [fetchError |-> FALSE, type |-> "", message |-> "Only absolute URLs are supported"]}

\* the headers kept on the Response: etag and last-modified, when present
HeadersOf(res) ==
    [etag |-> res.etag, lastModified |-> res.lastModified]

\* the number of Request entities a behaviour creates
MaxRequests == 1

IdleFetch ==
    [pc |-> "idle", url |-> "", options |-> NoOptions,
     request |-> NoRequest, response |-> NoResponse, res |-> NoRes, err |-> NoErr,
     text |-> Null, compressedText |-> NoEntry,
     \* ghosts
     cacheWrites |-> 0, objectWrites |-> 0, statusWrites |-> 0,
     cacheBefore |-> NoEntry]

CacheKeys == {Sha1(u) : u \in FetchUrls}

FetchIdle ==
    /\ requests = <<>>
    /\ responses = <<>>
    /\ objectStorage = {}
    /\ clock = 0
    /\ uuids = 0
    /\ fetches = [f \in FetchIds |-> IdleFetch]

\* the cache may hold a body of an earlier run under any key
FetchInit ==
    /\ FetchIdle
    /\ cache \in [CacheKeys -> {NoEntry, Deflate("<rss>1</rss>")}]

(***************************************************************************)
(* FeedFetcherService.fetchAndSaveResponse                                 *)
(***************************************************************************)
SetFetch(f, r) == fetches' = [fetches EXCEPT ![f] = r] /\ UNCHANGED <<schedVars, readVars, deliveryVars, usersVars>>

\* requestRepo.persist(request) of the catch block
PersistInCatchMissing(reqs, request) == reqs
PersistInCatch(reqs, request) == Append(reqs, request)

\* requestRepo.persist(request) of the try block
PersistInTryBeforeStatus(reqs, request) ==
    Append(reqs, [request EXCEPT !.status = "undefined"])
PersistInTry(reqs, request) == Append(reqs, request)

\* the call starts: the Request entity is created and the GET is sent
FetchAndSaveResponse(f, url, options, limit) ==
    /\ fetches[f].pc = "idle"
    /\ clock < limit
    /\ clock' = clock + 1
    /\ SetFetch(f, [IdleFetch EXCEPT
            !.pc = "fetchFeedResponse",
            !.url = url,
            !.options = options,
            !.request = [url |-> url, createdAt |-> clock + 1, status |-> "undefined",
                         errorMessage |-> "", response |-> NoResponse],
            !.cacheBefore = cache[Sha1(url)]])
    /\ UNCHANGED <<requests, responses, cache, objectStorage, uuids>>

\* the tail of the try block: isCloudflare is set, both entities are
\* persisted, and the finally block is entered
PersistAndFinish(f, st) ==
    LET response == [st.response EXCEPT !.isCloudflare = (st.res.server = "cloudflare")]
        request == [st.request EXCEPT !.response = response]
    IN  /\ responses' = Append(responses, response)
        /\ requests' = PersistInTry(requests, request)
        /\ SetFetch(f, [st EXCEPT
                !.response = response, !.request = request,
                !.pc = IF st.options.flushEntities THEN "flush" ELSE "returned"])

\* response.redisCacheKey = sha1.copy().update(url).digest('hex')
RedisCacheKeyOfRequest(st) == <<"sha1", st.url, st.request.createdAt>>
RedisCacheKeyOf(st) == Sha1(st.url)

\* response.redisCacheKey and response.textHash are set and
\* setFeedHtmlContent is called
KeysAndCacheSet(f, st) ==
    SetFetch(f, [st EXCEPT
        !.pc = "setFeedHtmlContent",
        !.response = [@ EXCEPT !.redisCacheKey = RedisCacheKeyOf(st),
                               !.textHash = TextHash(st.text)]])

\* deflate is called on the decoded text
Deflating(f, st) == SetFetch(f, [st EXCEPT !.pc = "deflate"])

\* the GET resolves with res
FetchResolves(f, res) ==
    /\ fetches[f].pc = "fetchFeedResponse"
    /\ LET st == [fetches[f] EXCEPT
                !.res = res,
                !.request = [@ EXCEPT !.status = StatusOf(res.status)],
                !.statusWrites = @ + 1,
                !.response = [createdAt |-> fetches[f].request.createdAt,
                              statusCode |-> res.status,
                              headers |-> HeadersOf(res),
                              redisCacheKey |-> NoKey, textHash |-> NoKey,
                              s3ObjectKey |-> NoKey, isCloudflare |-> FALSE]]
       IN  IF res.status = NOT_MODIFIED
           THEN Deflating(f, [st EXCEPT !.text = ""])
           ELSE SetFetch(f, [st EXCEPT !.pc = "maybeDecodeResponse"])
    /\ UNCHANGED <<requests, responses, cache, objectStorage, clock, uuids>>

\* the GET throws: the outer catch sets the status, persists the request and
\* the finally block is entered
FetchThrows(f, err) ==
    /\ fetches[f].pc = "fetchFeedResponse"
    /\ LET request == [fetches[f].request EXCEPT
                !.status = IF IsTimeout(err) THEN "FETCH_TIMEOUT" ELSE "FETCH_ERROR",
                !.errorMessage = err.message]
       IN  /\ requests' = PersistInCatch(requests, request)
           /\ SetFetch(f, [fetches[f] EXCEPT
                  !.err = err, !.request = request, !.statusWrites = @ + 1,
                  !.pc = IF fetches[f].options.flushEntities THEN "flush" ELSE "returned"])
    /\ UNCHANGED <<responses, cache, objectStorage, clock, uuids>>

\* maybeDecodeResponse resolves with the decoded text; the size is computed
\* and the disabled size check is passed
DecodeResolves(f, body) ==
    /\ fetches[f].pc = "maybeDecodeResponse"
    /\ Deflating(f, [fetches[f] EXCEPT !.text = body])
    /\ UNCHANGED <<requests, responses, cache, objectStorage, clock, uuids>>

\* maybeDecodeResponse throws: the status becomes PARSE_ERROR
DecodeThrows(f) ==
    /\ fetches[f].pc = "maybeDecodeResponse"
    /\ PersistAndFinish(f, [fetches[f] EXCEPT
            !.request = [@ EXCEPT !.status = StatusOnBodyError(FALSE)],
            !.statusWrites = @ + 1])
    /\ UNCHANGED <<cache, objectStorage, clock, uuids>>

\* deflate resolves: the upload is started when asked for, else the cache write
DeflateResolves(f) ==
    /\ fetches[f].pc = "deflate"
    /\ LET st == [fetches[f] EXCEPT !.compressedText = Deflate(fetches[f].text)]
       IN  IF st.options.saveResponseToObjectStorage
           THEN /\ uuids' = uuids + 1
                /\ SetFetch(f, [st EXCEPT
                        !.pc = "uploadFeedHtmlContent",
                        !.response = [@ EXCEPT !.s3ObjectKey = Uuid(uuids + 1)]])
           ELSE /\ uuids' = uuids
                /\ KeysAndCacheSet(f, st)
    /\ UNCHANGED <<requests, responses, cache, objectStorage, clock>>

\* deflate throws: logged by the inner catch
DeflateThrows(f) ==
    /\ fetches[f].pc = "deflate"
    /\ PersistAndFinish(f, fetches[f])
    /\ UNCHANGED <<cache, objectStorage, clock, uuids>>

\* uploadFeedHtmlContent resolves
UploadResolves(f) ==
    /\ fetches[f].pc = "uploadFeedHtmlContent"
    /\ objectStorage' = objectStorage \cup
            {[key |-> fetches[f].response.s3ObjectKey, body |-> fetches[f].compressedText]}
    /\ KeysAndCacheSet(f, [fetches[f] EXCEPT !.objectWrites = @ + 1])
    /\ UNCHANGED <<requests, responses, cache, clock, uuids>>

\* uploadFeedHtmlContent throws: logged
UploadThrowsSkipsCache(f) ==
    /\ fetches[f].pc = "uploadFeedHtmlContent"
    /\ PersistAndFinish(f, fetches[f])
    /\ UNCHANGED <<cache, objectStorage, clock, uuids>>
UploadThrows(f) ==
    /\ fetches[f].pc = "uploadFeedHtmlContent"
    /\ KeysAndCacheSet(f, fetches[f])
    /\ UNCHANGED <<requests, responses, cache, objectStorage, clock, uuids>>

\* setFeedHtmlContent resolves
CacheSetResolvesKeepsFirst(f) ==
    /\ fetches[f].pc = "setFeedHtmlContent"
    /\ cache' = IF cache[fetches[f].response.redisCacheKey] = NoEntry
                THEN [cache EXCEPT ![fetches[f].response.redisCacheKey] = fetches[f].compressedText]
                ELSE cache
    /\ PersistAndFinish(f, [fetches[f] EXCEPT !.cacheWrites = @ + 1])
    /\ UNCHANGED <<objectStorage, clock, uuids>>
CacheSetResolves(f) ==
    /\ fetches[f].pc = "setFeedHtmlContent"
    /\ cache' = [cache EXCEPT ![fetches[f].response.redisCacheKey] = fetches[f].compressedText]
    /\ PersistAndFinish(f, [fetches[f] EXCEPT !.cacheWrites = @ + 1])
    /\ UNCHANGED <<objectStorage, clock, uuids>>

\* setFeedHtmlContent throws: logged by the inner catch
CacheSetThrows(f) ==
    /\ fetches[f].pc = "setFeedHtmlContent"
    /\ PersistAndFinish(f, fetches[f])
    /\ UNCHANGED <<cache, objectStorage, clock, uuids>>

\* finally: requestRepo.flush() resolves and the call returns
FlushResolves(f) ==
    /\ fetches[f].pc = "flush"
    /\ SetFetch(f, [fetches[f] EXCEPT !.pc = "returned"])
    /\ UNCHANGED <<requests, responses, cache, objectStorage, clock, uuids>>

\* finally: requestRepo.flush() rejects and so does the call
FlushRejects(f) ==
    /\ fetches[f].pc = "flush"
    /\ SetFetch(f, [fetches[f] EXCEPT !.pc = "rejected"])
    /\ UNCHANGED <<requests, responses, cache, objectStorage, clock, uuids>>

\* the caller has the result; the slot takes the next call
FetchSettled(f) ==
    /\ fetches[f].pc \in {"returned", "rejected"}
    /\ SetFetch(f, IdleFetch)
    /\ UNCHANGED <<requests, responses, cache, objectStorage, clock, uuids>>

\* one step of the call in slot f, its inputs drawn from the given sets
FetchStepOn(f, limit, urls, optionSets, httpResponses, fetchErrors, bodies) ==
    \/ \E url \in urls, options \in optionSets :
          FetchAndSaveResponse(f, url, options, limit)
    \/ \E res \in httpResponses : FetchResolves(f, res)
    \/ \E err \in fetchErrors : FetchThrows(f, err)
    \/ \E body \in bodies : DecodeResolves(f, body)
    \/ DecodeThrows(f)
    \/ DeflateResolves(f)
    \/ DeflateThrows(f)
    \/ UploadResolves(f)
    \/ UploadThrows(f)
    \/ CacheSetResolves(f)
    \/ CacheSetThrows(f)
    \/ FlushResolves(f)
    \/ FlushRejects(f)
    \/ FetchSettled(f)

FetchStep(f, limit) ==
    FetchStepOn(f, limit, FetchUrls, FetchOptionSets, HttpResponses, FetchErrors, Bodies)

\* calls for one url that may overlap, each uploading and flushing
MaxPairRequests == 2
PairUrls == {"https://example.com/feed.xml"}
PairOptionSets == {[flushEntities |-> TRUE, saveResponseToObjectStorage |-> TRUE]}
PairResponses == {res \in HttpResponses : res.status \in {200, NOT_MODIFIED}}
PairErrors == {err \in FetchErrors : IsTimeout(err)}
PairBodies == {"", "<rss>1</rss>"}

FetchPairNext ==
    \E f \in FetchIds :
        FetchStepOn(f, MaxPairRequests, PairUrls, PairOptionSets,
                    PairResponses, PairErrors, PairBodies)

\* calls of one url one after the other, with and without the upload
MaxSeqRequests == 2
SeqOptionSets ==
    {[flushEntities |-> FALSE, saveResponseToObjectStorage |-> FALSE],
     [flushEntities |-> TRUE, saveResponseToObjectStorage |-> TRUE]}

FetchSeqNext ==
    \E f \in OneFetch :
        FetchStepOn(f, MaxSeqRequests, PairUrls, SeqOptionSets,
                    PairResponses, PairErrors, PairBodies)

FetchNext == \E f \in OneFetch : FetchStep(f, MaxRequests)

(***************************************************************************)
(* FeedFetcherService.getLatestRequest                                     *)
(***************************************************************************)
ReadIds == {"r1"}
NullResult == [null |-> TRUE]

IdleRead ==
    [pc |-> "idle", url |-> "", request |-> NoRequest, response |-> NoResponse,
     result |-> NullResult,
     \* ghosts: the requests the query saw, the cache entry the call read
     seen |-> <<>>, cacheRead |-> NoEntry]

ReadIdle == reads = [r \in ReadIds |-> IdleRead]

\* where: { url, response: { statusCode: { $ne: HttpStatus.NOT_MODIFIED } } }
MatchesLatestQuery(request, url) ==
    /\ request.url = url
    /\ request.response # NoResponse
    /\ request.response.statusCode # NOT_MODIFIED

\* requestRepo.findOne(where, { orderBy: { createdAt: 'DESC' } })
findOneOldest(reqs, url) ==
    LET m == {i \in DOMAIN reqs : MatchesLatestQuery(reqs[i], url)}
    IN  IF m = {} THEN NoRequest
        ELSE reqs[CHOOSE i \in m : \A j \in m : reqs[i].createdAt <= reqs[j].createdAt]
findOneLatest(reqs, url) ==
    LET m == {i \in DOMAIN reqs : MatchesLatestQuery(reqs[i], url)}
    IN  IF m = {} THEN NoRequest
        ELSE reqs[CHOOSE i \in m : \A j \in m : reqs[i].createdAt >= reqs[j].createdAt]

\* responseRepo.findOne({ id: request.response.id })
findOneResponse(resps, id) ==
    LET m == {i \in DOMAIN resps : resps[i].createdAt = id}
    IN  IF m = {} THEN NoResponse ELSE resps[CHOOSE i \in m : TRUE]

\* compressedText ? inflate(compressedText) : ''
DecodedText(compressedText) ==
    IF compressedText # NoEntry THEN Inflate(compressedText) ELSE ""

SetRead(r, st) == reads' = [reads EXCEPT ![r] = st] /\ UNCHANGED <<schedVars, fetchVars, deliveryVars, usersVars>>

\* the call starts: the query for the request is sent
GetLatestRequest(r, url) ==
    /\ reads[r].pc = "idle"
    /\ SetRead(r, [IdleRead EXCEPT !.pc = "findRequest", !.url = url])

\* the query resolves: null is returned when nothing matched, else the
\* response is looked up
FindRequestResolves(r) ==
    /\ reads[r].pc = "findRequest"
    /\ LET request == findOneLatest(requests, reads[r].url)
           st == [reads[r] EXCEPT !.request = request, !.seen = requests]
       IN  IF request = NoRequest
           THEN SetRead(r, [st EXCEPT !.pc = "returned", !.result = NullResult])
           ELSE SetRead(r, [st EXCEPT !.pc = "findResponse"])

\* the response is found: without a cache key the call returns the request
\* with the empty text, else the cache is read
FindResponseResolves(r) ==
    /\ reads[r].pc = "findResponse"
    /\ LET response == findOneResponse(responses, reads[r].request.response.createdAt)
           st == [reads[r] EXCEPT !.response = response]
       IN  IF response # NoResponse /\ response.redisCacheKey # NoKey
           THEN SetRead(r, [st EXCEPT !.pc = "getFeedHtmlContent"])
           ELSE SetRead(r, [st EXCEPT
                    !.pc = "returned",
                    !.result = [request |-> st.request, decodedResponseText |-> ""]])

\* the cache answers: the text is inflated, or empty when the entry is gone
CacheGetResolves(r) ==
    /\ reads[r].pc = "getFeedHtmlContent"
    /\ LET compressedText == cache[reads[r].response.redisCacheKey]
       IN  SetRead(r, [reads[r] EXCEPT
               !.pc = "returned",
               !.cacheRead = compressedText,
               !.result = [request |-> [reads[r].request EXCEPT !.response = reads[r].response],
                           decodedResponseText |-> DecodedText(compressedText)]])

\* one of the awaited lookups rejects, and so does the call
ReadRejects(r) ==
    /\ reads[r].pc \in {"findRequest", "findResponse", "getFeedHtmlContent"}
    /\ SetRead(r, [reads[r] EXCEPT !.pc = "rejected"])

\* the caller has the result; the slot takes the next call
ReadSettled(r) ==
    /\ reads[r].pc \in {"returned", "rejected"}
    /\ SetRead(r, IdleRead)

\* the cache drops an entry whose time to live is over
CacheExpires(k) ==
    /\ cache[k] # NoEntry
    /\ cache' = [cache EXCEPT ![k] = NoEntry]
    /\ UNCHANGED <<schedVars, readVars, deliveryVars, usersVars, requests, responses, objectStorage, clock, uuids, fetches>>

\* a headers map in which neither header is present: response.headers = {}
\* (a header that is absent is kept as the empty string, as if (etag) reads it)
EmptyHeaders == [etag |-> "", lastModified |-> ""]

\* requestRepo.findOne({ url, status: RequestStatus.OK },
\*                     { orderBy: { createdAt: 'DESC' }, populate: ['response'] })
findOneOkAnyStatus(reqs, url) ==
    LET m == {i \in DOMAIN reqs : reqs[i].url = url}
    IN  IF m = {} THEN NoRequest
        ELSE reqs[CHOOSE i \in m : \A j \in m : reqs[i].createdAt >= reqs[j].createdAt]
findOneOk(reqs, url) ==
    LET m == {i \in DOMAIN reqs : reqs[i].url = url /\ reqs[i].status = "OK"}
    IN  IF m = {} THEN NoRequest
        ELSE reqs[CHOOSE i \in m : \A j \in m : reqs[i].createdAt >= reqs[j].createdAt]

\* getLatestRequestHeaders starts: the query is sent
GetLatestRequestHeaders(r, url) ==
    /\ reads[r].pc = "idle"
    /\ SetRead(r, [IdleRead EXCEPT !.pc = "findHeaders", !.url = url])

\* the query resolves: return request.response?.headers || {}, or {} when
\* no request matched
FindHeadersResolves(r) ==
    /\ reads[r].pc = "findHeaders"
    /\ LET request == findOneOk(requests, reads[r].url)
           st == [reads[r] EXCEPT !.request = request, !.seen = requests, !.pc = "returned"]
       IN  IF request = NoRequest
           THEN SetRead(r, [st EXCEPT !.result = EmptyHeaders])
           ELSE IF request.response = NoResponse
           THEN SetRead(r, [st EXCEPT !.result = EmptyHeaders])
           ELSE SetRead(r, [st EXCEPT !.result = request.response.headers])

\* the query rejects, and so does the call
FindHeadersRejects(r) ==
    /\ reads[r].pc = "findHeaders"
    /\ SetRead(r, [reads[r] EXCEPT !.pc = "rejected"])

HeadersStep(r, urls) ==
    \/ \E url \in urls : GetLatestRequestHeaders(r, url)
    \/ FindHeadersResolves(r)
    \/ FindHeadersRejects(r)
    \/ ReadSettled(r)

ReadStep(r, urls) ==
    \/ \E url \in urls : GetLatestRequest(r, url)
    \/ FindRequestResolves(r)
    \/ FindResponseResolves(r)
    \/ CacheGetResolves(r)
    \/ ReadRejects(r)
    \/ ReadSettled(r)

\* fetches of two urls, one at a time, with reads at any moment
MaxReadRequests == 2
ReadOptionSets == {[flushEntities |-> TRUE, saveResponseToObjectStorage |-> TRUE]}
ReadResponses == {res \in HttpResponses : res.status \in {200, NOT_MODIFIED}}
ReadErrors == {err \in FetchErrors : IsTimeout(err)}
ReadBodies == {"<rss>1</rss>"}

\* fetches of two urls whose responses differ in their etag, one at a time,
\* with header reads at any moment
MaxHeaderRequests == 2
HeaderResponses ==
    {res \in [status : {200, 404}, etag : {"", "W/1"},
              lastModified : {""}, server : {"cloudflare"}] :
        res.status = 404 => res.etag # ""}

HeadersNext ==
    \/ \E f \in OneFetch :
          FetchStepOn(f, MaxHeaderRequests, FetchUrls, ReadOptionSets,
                      HeaderResponses, ReadErrors, ReadBodies)
    \/ \E r \in ReadIds : HeadersStep(r, FetchUrls)

ReadNext ==
    \/ \E f \in OneFetch :
          FetchStepOn(f, MaxReadRequests, FetchUrls, ReadOptionSets,
                      ReadResponses, ReadErrors, ReadBodies)
    \/ \E r \in ReadIds : ReadStep(r, FetchUrls)
    \/ \E k \in CacheKeys : CacheExpires(k)

\* fetches of one url, answered 200 or 304, and reads of it; no entry of the
\* cache expires
NotModifiedNext ==
    \/ \E f \in FetchIds :
          FetchStepOn(f, MaxReadRequests, PairUrls, ReadOptionSets,
                      ReadResponses, ReadErrors, ReadBodies)
    \/ \E r \in ReadIds : ReadStep(r, PairUrls)

(***************************************************************************)
(* DiscordMediumService: values                                            *)
(***************************************************************************)
DeliveryIds == {"d1"}
\* the longest rendered content
MaxContentLength == 5
\* the deliveries a behaviour starts
MaxDeliveries == 1

\* DiscordMediumService.BASE_API_URL
BASE_API_URL == "https://discord.com/api/v10"
getChannelApiUrl(channelId) == <<BASE_API_URL, "channels", channelId, "messages">>
getWebhookApiUrl(webhookId, webhookToken) == <<BASE_API_URL, "webhooks", webhookId, webhookToken>>

\* a channel or webhook that is not set
NoTarget == [none |-> TRUE]
Channels == {NoTarget, [id |-> "ch1"]}
Webhooks ==
    {NoTarget,
     [id |-> "wh1", token |-> "tok", name |-> "hook", iconUrl |-> "icon"],
     [id |-> "", token |-> "", name |-> "", iconUrl |-> ""]}

\* replaceTemplateString(article.flattened, content) || "": a rendered
\* content of n characters
Content(n) == [i \in 1..n |-> i]
Contents == {Content(n) : n \in 0..MaxContentLength}
\* the rendered embeds of the settings
EmbedSets ==
    {<<>>,
     <<[title |-> "title", description |-> "description"]>>,
     <<[title |-> "title", description |-> "description"], [title |-> "more", description |-> ""]>>}

NoSplit == [none |-> TRUE]
SplitOptionSets == {NoSplit, [limit |-> 1], [limit |-> 2], [limit |-> 3]}

\* articleFormatterService.applySplit(content, { ...splitOptions }): a content
\* within the limit is one part, a longer one is cut into parts of at most
\* limit characters
applySplit(content, limit) ==
    IF Len(content) <= limit THEN <<content>>
    ELSE [k \in 1..CeilDiv(Len(content), limit) |->
            SubSeq(content, (k - 1) * limit + 1,
                   IF k * limit < Len(content) THEN k * limit ELSE Len(content))]

\* payloadContent.map((contentPart) => ({ content: contentPart, embeds: embeds?.map(...) }))
generateApiPayloads(content, embeds, splitOptions) ==
    LET payloadContent ==
            IF splitOptions # NoSplit
            THEN applySplit(content, splitOptions.limit)
            ELSE <<content>>
    IN  [k \in DOMAIN payloadContent |->
            [content |-> payloadContent[k], embeds |-> embeds]]

\* what the callers hand to generateApiPayloads: { embeds, content }
PayloadArguments(settings) ==
    [content |-> settings.content, embeds |-> settings.embeds, splitOptions |-> NoSplit]
PayloadsFor(settings) ==
    LET a == PayloadArguments(settings)
    IN  generateApiPayloads(a.content, a.embeds, a.splitOptions)

\* details.deliverySettings / details.mediumDetails
DeliverySettings ==
    [channel : Channels, webhook : Webhooks,
     content : {Content(0), Content(MaxContentLength)},
     embeds : EmbedSets, splitOptions : {NoSplit, [limit |-> 2]}]

\* what producer.fetch resolves with: JobResponse | JobResponseError
JobResponses ==
    {[state |-> "success", status |-> 200], [state |-> "error", message |-> "Missing Access"]}
\* what producer.enqueue or producer.fetch may reject with
ProducerErrors == {[message |-> "Channel closed"], [message |-> "Queue is full"]}

NoState == [none |-> TRUE]
NoPayloads == <<>>

IdleDelivery ==
    [pc |-> "idle", method |-> "", deliveryId |-> 0, mediumId |-> "",
     settings |-> NoTarget, bodies |-> NoPayloads, pending |-> {},
     results |-> <<>>, result |-> NoState, err |-> NoErr,
     \* ghosts: where the calls of this delivery start in the producer's log,
     \* and how many it made
     base |-> 0, calls |-> 0]

DeliveryIdle ==
    /\ deliveries = [d \in DeliveryIds |-> IdleDelivery]
    /\ producerLog = <<>>
    /\ deliveryClock = 0

(***************************************************************************)
(* DiscordMediumService.deliverArticle and deliverTestArticle              *)
(***************************************************************************)
SetDelivery(d, st) ==
    /\ deliveries' = [deliveries EXCEPT ![d] = st]
    /\ UNCHANGED <<schedVars, fetchVars, readVars, gen, usersVars>>

\* the producer calls of one Promise.all: one per body, in order
ProducerCallsEnqueued(kind, apiUrl, bodies, meta) ==
    [k \in DOMAIN bodies |->
        [kind |-> "enqueue", url |-> apiUrl, body |-> bodies[k], meta |-> meta,
         settled |-> FALSE, delivered |-> FALSE]]
ProducerCalls(kind, apiUrl, bodies, meta) ==
    [k \in DOMAIN bodies |->
        [kind |-> kind, url |-> apiUrl, body |-> bodies[k], meta |-> meta,
         settled |-> FALSE, delivered |-> FALSE]]

\* the state returned when deliverArticle fails
FailedState(st, errorCode, internalMessage) ==
    [id |-> st.deliveryId, mediumId |-> st.mediumId, status |-> "Failed",
     errorCode |-> errorCode, internalMessage |-> internalMessage]
\* the state returned by deliverArticleToChannel and deliverArticleToWebhook
PendingState(st) ==
    [id |-> st.deliveryId, mediumId |-> st.mediumId, status |-> "PendingDelivery"]

\* catch (err) of deliverArticle
CaughtRethrown(st, err) == [st EXCEPT !.pc = "rejected", !.err = err]
Caught(st, err) ==
    [st EXCEPT !.pc = "returned", !.err = err,
               !.result = FailedState(st, "Internal", err.message)]

\* if (!channel && !webhook)
NoChannelAndNoWebhookNever(settings) == FALSE
NoChannelAndNoWebhook(settings) ==
    settings.channel = NoTarget /\ settings.webhook = NoTarget

\* if (webhook) deliverArticleToWebhook(...) else if (channel)
\* deliverArticleToChannel(...): the url the bodies are enqueued to
TargetApiUrlChannelFirst(settings) ==
    IF settings.channel # NoTarget
    THEN getChannelApiUrl(settings.channel.id)
    ELSE getWebhookApiUrl(settings.webhook.id, settings.webhook.token)
TargetApiUrl(settings) ==
    IF settings.webhook # NoTarget
    THEN getWebhookApiUrl(settings.webhook.id, settings.webhook.token)
    ELSE getChannelApiUrl(settings.channel.id)

\* deliverArticle starts: without a target it returns at once, else the
\* bodies are generated and every enqueue call is made
DeliverArticle(d, settings, limit) ==
    /\ deliveries[d].pc = "idle"
    /\ deliveryClock < limit
    /\ deliveryClock' = deliveryClock + 1
    /\ LET st == [IdleDelivery EXCEPT
                    !.method = "deliverArticle", !.settings = settings,
                    !.deliveryId = deliveryClock + 1, !.mediumId = "medium1",
                    !.base = Len(producerLog)]
       IN  IF NoChannelAndNoWebhook(settings)
           THEN /\ SetDelivery(d, [st EXCEPT
                        !.pc = "returned",
                        !.result = FailedState(st, "NoChannelOrWebhook",
                                               "No channel or webhook specified")])
                /\ UNCHANGED producerLog
           ELSE IF settings.webhook = NoTarget /\ settings.channel = NoTarget
           THEN \* the throw of the last else branch, caught at once
                /\ SetDelivery(d, Caught(st,
                        [message |-> "No channel or webhook specified for Discord medium"]))
                /\ UNCHANGED producerLog
           ELSE LET apiUrl == TargetApiUrl(settings)
                    bodies == PayloadsFor(settings)
                IN  /\ producerLog' = producerLog \o
                            ProducerCalls("enqueue", apiUrl, bodies, [id |-> st.deliveryId])
                    /\ SetDelivery(d, [st EXCEPT
                            !.pc = "enqueue", !.bodies = bodies,
                            !.pending = DOMAIN bodies, !.calls = Len(bodies)])

\* the producer accepts one job; when it was the last, Promise.all resolves
\* and the pending state is returned
EnqueueResolves(d, k) ==
    /\ deliveries[d].pc = "enqueue"
    /\ k \in deliveries[d].pending
    /\ producerLog' = [producerLog EXCEPT ![deliveries[d].base + k].settled = TRUE]
    /\ LET st == [deliveries[d] EXCEPT !.pending = @ \ {k}]
       IN  IF st.pending = {}
           THEN SetDelivery(d, [st EXCEPT !.pc = "returned", !.result = PendingState(st)])
           ELSE SetDelivery(d, st)
    /\ UNCHANGED deliveryClock

\* one enqueue call rejects: Promise.all rejects and the catch answers
EnqueueRejects(d, k, err) ==
    /\ deliveries[d].pc = "enqueue"
    /\ k \in deliveries[d].pending
    /\ SetDelivery(d, Caught([deliveries[d] EXCEPT !.pending = @ \ {k}], err))
    /\ UNCHANGED <<producerLog, deliveryClock>>

\* the consumer sends an accepted job to Discord, whenever it gets to it
JobDelivered(j) ==
    /\ j \in DOMAIN producerLog
    /\ producerLog[j].kind = "enqueue"
    /\ producerLog[j].settled
    /\ ~producerLog[j].delivered
    /\ producerLog' = [producerLog EXCEPT ![j].delivered = TRUE]
    /\ UNCHANGED <<schedVars, fetchVars, readVars, gen, usersVars, deliveries, deliveryClock>>

\* deliverTestArticle starts: with a webhook id or a channel id the payloads
\* are generated and every fetch call is made, else it throws
DeliverTestArticle(d, settings, limit) ==
    /\ deliveries[d].pc = "idle"
    /\ deliveryClock < limit
    /\ deliveryClock' = deliveryClock + 1
    /\ LET st == [IdleDelivery EXCEPT
                    !.method = "deliverTestArticle", !.settings = settings,
                    !.base = Len(producerLog)]
           webhookId == IF settings.webhook # NoTarget THEN settings.webhook.id ELSE ""
           channelId == IF settings.channel # NoTarget THEN settings.channel.id ELSE ""
           payloads == PayloadsFor(settings)
           named == [k \in DOMAIN payloads |->
                        [content |-> payloads[k].content, embeds |-> payloads[k].embeds,
                         username |-> settings.webhook.name,
                         avatar_url |-> settings.webhook.iconUrl]]
           sent(apiUrl, apiPayloads) ==
                /\ producerLog' = producerLog \o
                        ProducerCalls("fetch", apiUrl, apiPayloads, NoTarget)
                /\ SetDelivery(d, [st EXCEPT
                        !.pc = "fetch", !.bodies = apiPayloads,
                        !.pending = DOMAIN apiPayloads,
                        !.results = [k \in DOMAIN apiPayloads |-> NoState],
                        !.calls = Len(apiPayloads)])
       IN  IF webhookId # ""
           THEN sent(getWebhookApiUrl(webhookId, settings.webhook.token), named)
           ELSE IF channelId # ""
           THEN sent(getChannelApiUrl(channelId), payloads)
           ELSE /\ SetDelivery(d, [st EXCEPT
                        !.pc = "rejected",
                        !.err = [message |-> "No channel or webhook specified for Discord medium"]])
                /\ UNCHANGED producerLog

\* the producer answers one fetch; when it was the last, the first payload
\* and the first answer are returned
ProducerFetchResolves(d, k, response) ==
    /\ deliveries[d].pc = "fetch"
    /\ k \in deliveries[d].pending
    /\ producerLog' = [producerLog EXCEPT ![deliveries[d].base + k].settled = TRUE]
    /\ LET st == [deliveries[d] EXCEPT !.pending = @ \ {k}, !.results[k] = response]
       IN  IF st.pending = {}
           THEN SetDelivery(d, [st EXCEPT
                    !.pc = "returned",
                    !.result = [apiPayload |-> st.bodies[1], result |-> st.results[1]]])
           ELSE SetDelivery(d, st)
    /\ UNCHANGED deliveryClock

\* one fetch call rejects, and so does deliverTestArticle
ProducerFetchRejects(d, k, err) ==
    /\ deliveries[d].pc = "fetch"
    /\ k \in deliveries[d].pending
    /\ SetDelivery(d, [deliveries[d] EXCEPT !.pc = "rejected", !.err = err, !.pending = @ \ {k}])
    /\ UNCHANGED <<producerLog, deliveryClock>>

\* the caller has the outcome; the slot takes the next call
DeliverySettled(d) ==
    /\ deliveries[d].pc \in {"returned", "rejected"}
    /\ SetDelivery(d, IdleDelivery)
    /\ UNCHANGED <<producerLog, deliveryClock>>

MaxBodies == 1 + MaxContentLength

DeliveryStep(d, limit) ==
    \/ \E settings \in DeliverySettings : DeliverArticle(d, settings, limit)
    \/ \E k \in 1..MaxBodies : EnqueueResolves(d, k)
    \/ \E k \in 1..MaxBodies, err \in ProducerErrors : EnqueueRejects(d, k, err)
    \/ \E settings \in DeliverySettings : DeliverTestArticle(d, settings, limit)
    \/ \E k \in 1..MaxBodies, response \in JobResponses : ProducerFetchResolves(d, k, response)
    \/ \E k \in 1..MaxBodies, err \in ProducerErrors : ProducerFetchRejects(d, k, err)
    \/ DeliverySettled(d)

DeliveryNext ==
    \/ \E d \in DeliveryIds : DeliveryStep(d, MaxDeliveries)
    \/ \E j \in 1..(MaxDeliveries * MaxBodies) : JobDelivered(j)

(***************************************************************************)
(* DiscordMediumService.generateApiPayloads as a function of its arguments *)
(***************************************************************************)
NoCall == [none |-> TRUE]
PayloadCalls == [content : Contents, embeds : EmbedSets, splitOptions : SplitOptionSets]

GenIdle == gen = [arguments |-> NoCall, payloads |-> NoPayloads, done |-> FALSE]

\* the arguments of one call
GenInit == gen \in [arguments : PayloadCalls, payloads : {NoPayloads}, done : {FALSE}]

\* the call returns its payloads
GenerateApiPayloads ==
    /\ ~gen.done
    /\ gen.arguments # NoCall
    /\ gen' = [gen EXCEPT
            !.payloads = generateApiPayloads(gen.arguments.content, gen.arguments.embeds,
                                             gen.arguments.splitOptions),
            !.done = TRUE]
    /\ UNCHANGED <<schedVars, fetchVars, readVars, usersVars, deliveries, producerLog, deliveryClock>>

GenNext == GenerateApiPayloads

(***************************************************************************)
(* DiscordUsersService                                                     *)
(***************************************************************************)
MaxGuilds == 2
GuildIds == {"guild_id", "guild_id_2", "guild_id_3"}
Permissions == {0, 15, 16, 48}
MANAGE_CHANNEL_PERMISSION == 16

\* guild.permissions & MANAGE_CHANNEL_PERMISSION, for a mask of one bit
BitAnd(permissions, bit) == ((permissions \div bit) % 2) * bit

PartialUserGuild == [id : GuildIds, icon : {"icon_hash"}, owner : BOOLEAN, permissions : Permissions]

\* the responses of GET /users/@me/guilds: lists of guilds of distinct ids
GuildLists ==
    UNION {{g \in [1..n -> PartialUserGuild] :
                \A i, j \in 1..n : i # j => g[i].id # g[j].id} : n \in 0..MaxGuilds}

GuildOptionSets ==
    {[guildIconSize |-> Null, guildIconFormat |-> Null],
     [guildIconSize |-> "64", guildIconFormat |-> "webp"]}

\* SupportersService.getBenefitsOfServers(serverIds): the benefits of each
\* server, in the order of the ids
BenefitsOfServer ==
    [id \in GuildIds |->
        CASE id = "guild_id"   -> [maxFeeds |-> 10, webhooks |-> TRUE, refreshRateSeconds |-> 600]
          [] id = "guild_id_2" -> [maxFeeds |-> 20, webhooks |-> FALSE, refreshRateSeconds |-> 120]
          [] OTHER             -> [maxFeeds |-> 5, webhooks |-> TRUE, refreshRateSeconds |-> 600]]
getBenefitsOfServers(serverIds) == [i \in DOMAIN serverIds |-> BenefitsOfServer[serverIds[i]]]

\* guild.owner || (guild.permissions & 16) === 16
hasPermissionIgnoringOwner(guild) ==
    BitAnd(guild.permissions, MANAGE_CHANNEL_PERMISSION) = MANAGE_CHANNEL_PERMISSION
hasPermission(guild) ==
    \/ guild.owner
    \/ BitAnd(guild.permissions, MANAGE_CHANNEL_PERMISSION) = MANAGE_CHANNEL_PERMISSION

iconUrl(guild, iconFormat, iconSize) ==
    <<"https://cdn.discordapp.com/icons", guild.id, guild.icon, iconFormat, iconSize>>
avatarUrl(user) == <<"https://cdn.discordapp.com/avatars", user.id, user.avatar, "png">>

\* the responses of GET /users/@me
DiscordUsers ==
    [id : {"user_id"}, discriminator : {"0001"}, username : {"test"},
     avatar : {Null, "icon_hash"}]

\* what SupportersService.getBenefitsOfDiscordUser may return
UserBenefits ==
    [isSupporter : BOOLEAN, guilds : {<<>>, <<"1">>}, maxFeeds : {0, 10},
     maxGuilds : {0, 10}, expireAt : {Null, "2030-01-01"}]

NoSupporter == [none |-> TRUE]
NoAvatarUrl == <<>>
NoUser == [none |-> TRUE]
NoBenefits == [none |-> TRUE]

IdleDiscord ==
    [pc |-> "idle", method |-> "none", options |-> [guildIconSize |-> Null, guildIconFormat |-> Null],
     guilds |-> <<>>, guildsWithPermission |-> <<>>, user |-> NoUser,
     benefits |-> NoBenefits, result |-> NullResult]
DiscordIdle == discord = IdleDiscord

SetDiscord(st) ==
    discord' = st /\ UNCHANGED <<schedVars, fetchVars, readVars, deliveryVars>>

\* getGuilds starts: GET /users/@me/guilds is sent
GetGuilds(options) ==
    /\ discord.pc = "idle"
    /\ SetDiscord([IdleDiscord EXCEPT !.pc = "executeBearerRequest", !.method = "getGuilds",
                                      !.options = options])

\* the guilds arrive and are filtered; the benefits of the kept ids are asked for
GuildsResolve(guilds) ==
    /\ discord.pc = "executeBearerRequest"
    /\ discord.method = "getGuilds"
    /\ SetDiscord([discord EXCEPT !.guilds = guilds,
                                  !.guildsWithPermission = SelectSeq(guilds, hasPermission),
                                  !.pc = "getBenefitsOfServers"])

\* the benefits arrive; every kept guild gets its icon url and its benefits
BenefitsOfServersResolve ==
    /\ discord.pc = "getBenefitsOfServers"
    /\ LET kept == discord.guildsWithPermission
           guildIds == [i \in DOMAIN kept |-> kept[i].id]
           guildBenefits == getBenefitsOfServers(guildIds)
           iconSize == IF discord.options.guildIconSize # Null
                       THEN discord.options.guildIconSize ELSE "128"
           iconFormat == IF discord.options.guildIconFormat # Null
                         THEN discord.options.guildIconFormat ELSE "png"
       IN  SetDiscord([discord EXCEPT
               !.result = [index \in DOMAIN kept |->
                   [id |-> kept[index].id, icon |-> kept[index].icon,
                    owner |-> kept[index].owner, permissions |-> kept[index].permissions,
                    iconUrl |-> iconUrl(kept[index], iconFormat, iconSize),
                    benefits |-> [maxFeeds |-> guildBenefits[index].maxFeeds,
                                  webhooks |-> guildBenefits[index].webhooks]]],
               !.pc = "returned"])

\* getUser starts: GET /users/@me is sent
GetUser ==
    /\ discord.pc = "idle"
    /\ SetDiscord([IdleDiscord EXCEPT !.pc = "executeBearerRequest", !.method = "getUser"])

\* the user arrives; their benefits are asked for
UserResolves(user) ==
    /\ discord.pc = "executeBearerRequest"
    /\ discord.method = "getUser"
    /\ SetDiscord([discord EXCEPT !.user = user, !.pc = "getBenefitsOfDiscordUser"])

\* the benefits arrive; the supporter block is added for a supporter and the
\* avatar url for a user with an avatar
BenefitsOfDiscordUserResolve(benefits) ==
    /\ discord.pc = "getBenefitsOfDiscordUser"
    /\ LET user == discord.user
       IN  SetDiscord([discord EXCEPT
               !.benefits = benefits,
               !.result = [id |-> user.id, discriminator |-> user.discriminator,
                           username |-> user.username, avatar |-> user.avatar,
                           supporter |-> IF benefits.isSupporter
                                         THEN [guilds |-> benefits.guilds,
                                               maxFeeds |-> benefits.maxFeeds,
                                               maxGuilds |-> benefits.maxGuilds,
                                               expireAt |-> benefits.expireAt]
                                         ELSE NoSupporter,
                           avatarUrl |-> IF user.avatar # Null THEN avatarUrl(user)
                                         ELSE NoAvatarUrl],
               !.pc = "returned"])

\* a request to Discord or to the supporters service rejects, and so does the call
DiscordRejects ==
    /\ discord.pc \in {"executeBearerRequest", "getBenefitsOfServers", "getBenefitsOfDiscordUser"}
    /\ SetDiscord([discord EXCEPT !.pc = "rejected"])

\* the caller has taken the outcome
DiscordSettled ==
    /\ discord.pc \in {"returned", "rejected"}
    /\ SetDiscord(IdleDiscord)

DiscordUsersNext ==
    \/ \E options \in GuildOptionSets : GetGuilds(options)
    \/ \E guilds \in GuildLists : GuildsResolve(guilds)
    \/ BenefitsOfServersResolve
    \/ GetUser
    \/ \E user \in DiscordUsers : UserResolves(user)
    \/ \E benefits \in UserBenefits : BenefitsOfDiscordUserResolve(benefits)
    \/ DiscordRejects
    \/ DiscordSettled

(***************************************************************************)
(* Specifications                                                          *)
(***************************************************************************)
\* the parts of the program that stay idle under a specification
SchedRest ==
    /\ SchedIdle
    /\ feeds = <<>>
    /\ benefitsOfAllDiscordUsers =
          [u \in Users |-> [isSupporter |-> FALSE, refreshRateSeconds |-> 120,
                            maxDailyArticles |-> 500]]
FetchRest ==
    /\ FetchIdle
    /\ cache = [k \in CacheKeys |-> NoEntry]
    /\ ReadIdle
DeliveryRest ==
    /\ DeliveryIdle
    /\ GenIdle

\* the scheduler alone: one handleRefreshRate invocation at a time
ScheduleOnlyInit ==
    /\ SchedInit
    /\ DiscordIdle
    /\ FetchRest
    /\ DeliveryRest

SpecSchedule == ScheduleOnlyInit /\ [][SchedNext]_vars

\* one feed of the first user, stored at either rate
ConcurrentInit ==
    /\ feeds \in {StoreOf(1, a) :
                    a \in [1..1 -> [user : {"u1"}, refreshRateSeconds : Rates,
                                    maxDailyArticles : {500}]]}
    /\ benefitsOfAllDiscordUsers \in ConcurrentSnapshots
    /\ SchedIdle
    /\ DiscordIdle
    /\ FetchRest
    /\ DeliveryRest

\* the scheduler alone, the cycles of two tiers overlapping
SpecScheduleConcurrent == ConcurrentInit /\ [][ConcurrentNext]_vars

\* the steps that are no rejection: a started request settles in the end, and
\* the interval calls handleRefreshRate again
SchedProgress ==
    \/ \E c \in OneCycle :
          \/ \E r \in Rates : HandleRefreshRate(c, r)
          \/ \E g \in cyc[c].pending : GroupUpdateResolves(c, g)
          \/ SyncRefreshRatesReset(c)
          \/ SyncMaxDailyArticlesReset(c)
          \/ FindFeedsToDebug(c)
          \/ OpenCursor(c)
          \/ CursorNext(c)
          \/ CursorExhausted(c)
          \/ UrlsHandlerResolves(c)
          \/ CycleSettled(c)
    \/ \E o \in orphans : OrphanUpdateCommits(o)

\* stores whose rates or quotas are arbitrary
HealingInit ==
    /\ \/ /\ feeds \in RateStores
          /\ benefitsOfAllDiscordUsers \in [Users -> RateBenefitRecs]
       \/ /\ feeds \in QuotaStores
          /\ benefitsOfAllDiscordUsers \in [Users -> QuotaBenefitRecs]
    /\ SchedIdle
    /\ DiscordIdle
    /\ FetchRest
    /\ DeliveryRest

\* the scheduler alone, every cycle after the other, with progress
SpecScheduleHealing ==
    HealingInit /\ [][SchedNext]_vars /\ WF_vars(SchedProgress)

\* the fetcher alone: one fetchAndSaveResponse invocation at a time
FetchOnlyInit ==
    /\ FetchInit
    /\ DiscordIdle
    /\ ReadIdle
    /\ SchedRest
    /\ DeliveryRest

SpecFetch == FetchOnlyInit /\ [][FetchNext]_vars

\* the fetcher with two calls in flight at once, the cache empty at the start
FetchPairInit ==
    /\ FetchOnlyInit
    /\ cache = [k \in CacheKeys |-> NoEntry]

SpecFetchPair == FetchPairInit /\ [][FetchPairNext]_vars

\* the fetcher with one call after the other, the cache empty at the start
SpecFetchSeq == FetchPairInit /\ [][FetchSeqNext]_vars

\* the fetcher and its read path, the cache empty at the start
SpecRead == FetchPairInit /\ [][ReadNext]_vars

\* the fetcher and its read path while no cache entry expires
SpecNotModified == FetchPairInit /\ [][NotModifiedNext]_vars

\* the fetcher and the read of the latest headers
SpecHeaders == FetchPairInit /\ [][HeadersNext]_vars

\* the Discord users service alone
DiscordUsersOnlyInit ==
    /\ DiscordIdle
    /\ SchedRest
    /\ FetchRest
    /\ DeliveryRest

SpecDiscordUsers == DiscordUsersOnlyInit /\ [][DiscordUsersNext]_vars

\* the delivery medium alone
DeliveryOnlyInit ==
    /\ DeliveryRest
    /\ DiscordIdle
    /\ SchedRest
    /\ FetchRest

SpecDelivery == DeliveryOnlyInit /\ [][DeliveryNext]_vars

\* generateApiPayloads applied to every combination of its arguments
PayloadsOnlyInit ==
    /\ GenInit
    /\ DiscordIdle
    /\ DeliveryIdle
    /\ SchedRest
    /\ FetchRest

SpecPayloads == PayloadsOnlyInit /\ [][GenNext]_vars

(***************************************************************************)
(* Claims about ScheduleHandlerService, checked under SpecSchedule         *)
(***************************************************************************)
UrlsOf(batch) == [k \in DOMAIN batch |-> batch[k].url]
NonEmptyUrls(s) == SelectSeq(s, LAMBDA u : u # NoUrl)
\* the urls handed to urlsHandler so far, in the order they were handed over
Dispatched(c) == UrlsOf(Flatten(cyc[c].dispatched))

\* C1: a cycle over a cursor of N non-empty urls calls urlsHandler
\* ceil(N/25) times; every batch but the last holds 25 entries, the last
\* holds 1 to 25, none is empty, and the batches concatenated are the
\* cursor's non-empty urls in cursor order.
C1_Batches ==
    \A c \in CycleIds :
        LET d == cyc[c].dispatched
            urls == NonEmptyUrls(cyc[c].cursorSeq)
        IN  /\ \A k \in DOMAIN d :
                  /\ Len(d[k]) >= 1
                  /\ Len(d[k]) <= 25
                  /\ k < Len(d) => Len(d[k]) = 25
            /\ cyc[c].pc = "done" =>
                  /\ Len(d) = CeilDiv(Len(urls), 25)
                  /\ Dispatched(c) = urls

\* 30 urls were handed over as a batch of 25 and a batch of 5
C1_Witness ==
    \E c \in CycleIds :
        /\ cyc[c].pc = "done"
        /\ Len(NonEmptyUrls(cyc[c].cursorSeq)) = 30
        /\ Len(cyc[c].dispatched) = 2
        /\ Len(cyc[c].dispatched[1]) = 25
        /\ Len(cyc[c].dispatched[2]) = 5

\* the non-empty urls of the feeds stored with the cycle's refresh rate
MatchingUrls(c) ==
    {feeds[i].url : i \in {j \in DOMAIN feeds :
        feeds[j].refreshRateSeconds = cyc[c].refreshRateSeconds}} \ {NoUrl}

\* C2: a completed cycle has handed every distinct non-empty url of the
\* feeds of its refresh rate to urlsHandler exactly once, and an empty url
\* is never handed over.
C2_EachUrlOnce ==
    \A c \in CycleIds :
        /\ NoUrl \notin Range(Dispatched(c))
        /\ \A i, j \in DOMAIN Dispatched(c) :
              i # j => Dispatched(c)[i] # Dispatched(c)[j]
        /\ cyc[c].pc = "done" => Range(Dispatched(c)) = MatchingUrls(c)

\* two matching feeds share a url, a third key is empty or absent, and the
\* url was handed over once
C2_Witness ==
    \E c \in CycleIds :
        /\ cyc[c].pc = "done"
        /\ Len(feeds) = 2
        /\ feeds[1].url = feeds[2].url
        /\ feeds[1].url # NoUrl
        /\ feeds[1].refreshRateSeconds = cyc[c].refreshRateSeconds
        /\ feeds[2].refreshRateSeconds = cyc[c].refreshRateSeconds
        /\ Dispatched(c) = <<feeds[1].url>>

\* C3: once a cycle has opened its cursor or handed over a batch, both of
\* its syncs have completed and none of its bulk updates is outstanding.
C3_SyncBeforeQuery ==
    \A c \in CycleIds :
        (cyc[c].opened \/ cyc[c].dispatched # <<>>
            \/ cyc[c].pc \in {"openCursor", "iterate", "urlsHandler", "urlsHandlerFinal"})
        => /\ cyc[c].rrDone
           /\ cyc[c].mdaDone
           /\ cyc[c].unsettled = 0

\* a cycle whose sync modified a feed has handed over a batch
C3_Witness ==
    \E c \in CycleIds :
        /\ cyc[c].rrModified > 0
        /\ cyc[c].dispatched # <<>>
        /\ cyc[c].pc = "urlsHandlerFinal"

\* C4: a syncRefreshRates run that starts after a run with the same
\* snapshot has completed modifies no feed.
C4_SyncIdempotent ==
    \A c \in CycleIds : cyc[c].rrAfterComplete => cyc[c].rrModified = 0

\* a second run has completed over a store that holds a supporter's feed at
\* the tier rate and another user's feed at the default
C4_Witness ==
    \E c \in CycleIds :
        /\ cyc[c].rrAfterComplete
        /\ cyc[c].rrDone
        /\ \E i, j \in DOMAIN feeds :
              /\ feeds[i].refreshRateSeconds = 120
              /\ feeds[j].refreshRateSeconds = defaultRefreshRateSeconds

\* the value a completed sync leaves for a feed of user u
Entitled(benefits, u, field, default) ==
    IF benefits[u].isSupporter THEN benefits[u][field] ELSE default

\* C5: after syncRefreshRates (syncMaxDailyArticles) has completed, every
\* feed of a supporter stores the supporter's refreshRateSeconds
\* (maxDailyArticles) and every other feed stores the default.
C5_SyncConverges ==
    \A c \in CycleIds :
        /\ cyc[c].rrDone =>
              \A i \in DOMAIN feeds :
                  feeds[i].refreshRateSeconds =
                      Entitled(cyc[c].allBenefits, feeds[i].user,
                               "refreshRateSeconds", defaultRefreshRateSeconds)
        /\ cyc[c].mdaDone =>
              \A i \in DOMAIN feeds :
                  feeds[i].maxDailyArticles =
                      Entitled(cyc[c].allBenefits, feeds[i].user,
                               "maxDailyArticles", maxDailyArticlesDefault)

\* both syncs have completed; syncRefreshRates raised one feed to the tier
\* rate and reset another to the default
C5_Witness ==
    \E c \in CycleIds :
        /\ cyc[c].mdaDone
        /\ cyc[c].rrModified = 2
        /\ \E i, j \in DOMAIN feeds :
              /\ feeds[i].refreshRateSeconds = 120
              /\ feeds[i].maxDailyArticles = 500
              /\ feeds[j].refreshRateSeconds = defaultRefreshRateSeconds
              /\ feeds[j].maxDailyArticles = maxDailyArticlesDefault

(***************************************************************************)
(* Claims about FeedFetcherService, checked under SpecFetch                *)
(***************************************************************************)
\* the call has left its try/catch: its result and its records are decided
Finished(f) == fetches[f].pc \in {"flush", "returned", "rejected"}
ReceivedResponse(f) == fetches[f].res # NoRes
\* the entities persisted for the call of slot f
RequestsOf(f) ==
    {i \in DOMAIN requests : requests[i].createdAt = fetches[f].request.createdAt}
ResponsesOf(f) ==
    {i \in DOMAIN responses : responses[i].createdAt = fetches[f].request.createdAt}

\* C6: a call whose response is 304 Not Modified ends with decoded body "",
\* has written neither the cache nor the object storage, and leaves the
\* cache entry of its url as it was.
C6_NotModifiedWritesNothing ==
    \A f \in FetchIds :
        (Finished(f) /\ ReceivedResponse(f) /\ fetches[f].res.status = 304)
        => /\ fetches[f].text = ""
           /\ fetches[f].cacheWrites = 0
           /\ fetches[f].objectWrites = 0
           /\ cache[Sha1(fetches[f].url)] = fetches[f].cacheBefore

\* C7: a call whose decoded body is larger than the ceiling ends with
\* status REFUSED_LARGE_FEED and has written neither the cache nor the
\* object storage.
C7_LargeFeedRefused ==
    \A f \in FetchIds :
        (Finished(f) /\ fetches[f].text # Null
            /\ TooLarge(fetches[f].text))
        => /\ fetches[f].request.status = "REFUSED_LARGE_FEED"
           /\ fetches[f].cacheWrites = 0
           /\ fetches[f].objectWrites = 0

\* C8 as stated: every call, whatever its outcome, persists its Request
\* together with a Response, the request exactly once.
C8_RequestWithResponseAlways ==
    \A f \in FetchIds :
        Finished(f)
        => /\ Cardinality(RequestsOf(f)) = 1
           /\ Cardinality(ResponsesOf(f)) = 1
           /\ fetches[f].request.response # NoResponse

\* C8 as amended: every call persists its Request exactly once, whatever its
\* outcome; a Response is persisted and linked to it exactly when the GET
\* returned a response, and none when the GET threw.
C8_RequestOnceResponseWhenReceived ==
    \A f \in FetchIds :
        Finished(f)
        => /\ Cardinality(RequestsOf(f)) = 1
           /\ \A i \in RequestsOf(f) : requests[i] = fetches[f].request
           /\ ReceivedResponse(f) =>
                 /\ Cardinality(ResponsesOf(f)) = 1
                 /\ \A i \in ResponsesOf(f) : responses[i] = fetches[f].request.response
           /\ ~ReceivedResponse(f) =>
                 /\ ResponsesOf(f) = {}
                 /\ fetches[f].request.response = NoResponse

\* a call whose GET timed out has returned: its request is persisted, no
\* response is
C8_Witness ==
    \E f \in FetchIds :
        /\ fetches[f].pc = "returned"
        /\ fetches[f].request.status = "FETCH_TIMEOUT"
        /\ Len(requests) = 1
        /\ requests[1].response = NoResponse
        /\ responses = <<>>

\* C9: fetchAndSaveResponse never rejects.
C9_NeverRejects == \A f \in FetchIds : fetches[f].pc # "rejected"

\* C10: the final status follows from the outcome: timeout -> FETCH_TIMEOUT,
\* any other thrown error -> FETCH_ERROR, both with the error's message;
\* a decoded response of status 2xx or 304 -> OK, of another status ->
\* BAD_STATUS_CODE; a response that could not be decoded -> PARSE_ERROR.
C10_StatusByOutcome ==
    \A f \in FetchIds :
        LET st == fetches[f]
            threw == st.err # NoErr
            timedOut == threw /\ st.err.type = "request-timeout"
            decoded == ReceivedResponse(f) /\ st.text # Null
            good == \/ st.res.status \in 200..299
                    \/ st.res.status = 304
        IN  Finished(f)
            => /\ threw # ReceivedResponse(f)
               /\ timedOut =>
                     /\ st.request.status = "FETCH_TIMEOUT"
                     /\ st.request.errorMessage = st.err.message
               /\ (threw /\ ~timedOut) =>
                     /\ st.request.status = "FETCH_ERROR"
                     /\ st.request.errorMessage = st.err.message
               /\ (decoded /\ good) => st.request.status = "OK"
               /\ (decoded /\ ~good) => st.request.status = "BAD_STATUS_CODE"
               /\ (ReceivedResponse(f) /\ ~decoded) => st.request.status = "PARSE_ERROR"

\* a 304 response has ended OK, and earlier outcomes are on record
C10_Witness ==
    \E f \in FetchIds :
        /\ fetches[f].pc = "returned"
        /\ ReceivedResponse(f)
        /\ fetches[f].res.status = 304
        /\ fetches[f].request.status = "OK"

\* C11: a call that ends with status OK returns a non-null responseText, the
\* empty string for a 304 response; a response whose body could not be
\* decoded never leaves the request with status OK.
C11_OkHasText ==
    \A f \in FetchIds :
        Finished(f)
        => /\ fetches[f].request.status = "OK" =>
                 /\ fetches[f].text # Null
                 /\ fetches[f].res.status = 304 => fetches[f].text = ""
           /\ (ReceivedResponse(f) /\ fetches[f].text = Null) =>
                 fetches[f].request.status # "OK"

\* a 200 response was decoded and the call has returned it with status OK
C11_Witness ==
    \E f \in FetchIds :
        /\ fetches[f].pc = "returned"
        /\ fetches[f].request.status = "OK"
        /\ fetches[f].res.status = 200
        /\ fetches[f].text = "<rss>1</rss>"

\* C12 as stated: within one call the status is assigned exactly once.
C12_StatusAssignedOnce ==
    \A f \in FetchIds : Finished(f) => fetches[f].statusWrites = 1

\* C12 as amended: the status is assigned once, except that a decode failure
\* overwrites the provisional status once more; every assignment precedes
\* persist, and the persisted request keeps the final status.
C12_StatusFinalBeforePersist ==
    \A f \in FetchIds :
        /\ (fetches[f].pc # "idle" /\ ~Finished(f)) => RequestsOf(f) = {}
        /\ Finished(f) =>
              /\ fetches[f].statusWrites =
                    IF ReceivedResponse(f) /\ fetches[f].text = Null THEN 2 ELSE 1
              /\ fetches[f].request.status # "undefined"
              /\ \A i \in RequestsOf(f) :
                    requests[i].status = fetches[f].request.status

\* a decode failure has overwritten the provisional status and the request is
\* persisted with PARSE_ERROR
C12_Witness ==
    \E f \in FetchIds :
        /\ fetches[f].pc = "returned"
        /\ fetches[f].statusWrites = 2
        /\ \E i \in RequestsOf(f) : requests[i].status = "PARSE_ERROR"

\* the calls of slots f and g are over, each got a response, for one url
BothRecorded(f, g) ==
    /\ Finished(f) /\ Finished(g)
    /\ ReceivedResponse(f) /\ ReceivedResponse(g)
    /\ fetches[f].url = fetches[g].url

\* C13 as stated: every call creates a new Request record; any two responses
\* recorded for one url carry the same redisCacheKey, and the same textHash
\* when their decoded bodies are equal.
C13_SameKeyAndHash ==
    \A f, g \in FetchIds :
        BothRecorded(f, g)
        => /\ f # g => RequestsOf(f) \cap RequestsOf(g) = {}
           /\ fetches[f].response.redisCacheKey = fetches[g].response.redisCacheKey
           /\ (fetches[f].text # Null /\ fetches[f].text = fetches[g].text) =>
                 fetches[f].response.textHash = fetches[g].response.textHash

\* C13 as amended: every call creates a new Request record; a response
\* carries a redisCacheKey and a textHash exactly when its body was decoded
\* and compressed; any two responses for one url that carry them have the
\* same redisCacheKey, and the same textHash when their bodies are equal.
C13_SameKeyAndHashWhenSet ==
    \A f, g \in FetchIds :
        BothRecorded(f, g)
        => LET rf == fetches[f].response
               rg == fetches[g].response
               compressed(h) == fetches[h].compressedText # NoEntry
           IN  /\ f # g => /\ RequestsOf(f) \cap RequestsOf(g) = {}
                           /\ Cardinality(RequestsOf(f)) = 1
               /\ compressed(f) = (rf.redisCacheKey # NoKey)
               /\ compressed(f) = (rf.textHash # NoKey)
               /\ (compressed(f) /\ compressed(g)) =>
                     /\ rf.redisCacheKey = rg.redisCacheKey
                     /\ fetches[f].text = fetches[g].text => rf.textHash = rg.textHash

\* two calls for one url were decoded to the same non-empty body and
\* compressed, one after the other or overlapping, and both are recorded
C13_Witness ==
    /\ BothRecorded("f1", "f2")
    /\ fetches["f1"].text = "<rss>1</rss>"
    /\ fetches["f2"].text = "<rss>1</rss>"
    /\ fetches["f1"].response.textHash = Sha1("<rss>1</rss>")
    /\ fetches["f2"].response.textHash = Sha1("<rss>1</rss>")
    /\ Len(requests) = 2

\* the object-storage keys of the responses persisted before the call of f
EarlierObjectKeys(f) ==
    {responses[i].s3ObjectKey :
        i \in {j \in DOMAIN responses :
                  responses[j].createdAt < fetches[f].request.createdAt}} \ {NoKey}

\* C20: a call writes to object storage only when saveResponseToObjectStorage
\* is set, at most once, under a key generated for that call that differs
\* from the url's cache key and from the keys of earlier calls; without the
\* flag nothing is written and the response has no object-storage key.
C20_ObjectStorageOnlyOnRequest ==
    /\ \A o1, o2 \in objectStorage : o1.key = o2.key => o1 = o2
    /\ \A f \in FetchIds :
          fetches[f].pc # "idle"
          => LET st == fetches[f]
             IN  /\ st.objectWrites <= 1
                 /\ ~st.options.saveResponseToObjectStorage =>
                       /\ st.objectWrites = 0
                       /\ st.response # NoResponse => st.response.s3ObjectKey = NoKey
                 /\ st.objectWrites = 1 =>
                       /\ st.options.saveResponseToObjectStorage
                       /\ st.response.s3ObjectKey # NoKey
                       /\ st.response.s3ObjectKey # Sha1(st.url)
                       /\ st.response.s3ObjectKey \notin EarlierObjectKeys(f)
                       /\ [key |-> st.response.s3ObjectKey, body |-> st.compressedText]
                             \in objectStorage
                 /\ Cardinality(objectStorage) <= Cardinality(EarlierObjectKeys(f)) + st.objectWrites

\* the second of two calls with the flag has uploaded under a key of its own
C20_Witness ==
    \E f \in FetchIds :
        /\ fetches[f].pc = "returned"
        /\ fetches[f].objectWrites = 1
        /\ EarlierObjectKeys(f) # {}
        /\ Cardinality(objectStorage) = 2

\* the upload of the call in slot f was started and threw
UploadThrew(f) ==
    /\ fetches[f].pc \in {"setFeedHtmlContent", "flush", "returned", "rejected"}
    /\ fetches[f].options.saveResponseToObjectStorage
    /\ fetches[f].response # NoResponse
    /\ fetches[f].response.s3ObjectKey # NoKey
    /\ fetches[f].objectWrites = 0

\* C21: after uploadFeedHtmlContent throws, the call still writes the body to
\* the cache, keeps the status decided from the HTTP response, persists the
\* request and the response, and returns the decoded text.
C21_UploadFailureNotFatal ==
    \A f \in FetchIds :
        UploadThrew(f)
        => LET st == fetches[f]
           IN  /\ st.response.redisCacheKey = Sha1(st.url)
               /\ st.text # Null
               /\ st.request.status =
                     IF st.res.status \in 200..299 \/ st.res.status = 304
                     THEN "OK" ELSE "BAD_STATUS_CODE"
               /\ st.cacheWrites = 1 => cache[Sha1(st.url)] = <<"deflate", "base64", st.text>>
               /\ Finished(f) =>
                     /\ Cardinality(RequestsOf(f)) = 1
                     /\ Cardinality(ResponsesOf(f)) = 1
                     /\ \A i \in RequestsOf(f) : requests[i].status = st.request.status

\* the upload threw, the body is in the cache and the call has returned it
C21_Witness ==
    \E f \in FetchIds :
        /\ UploadThrew(f)
        /\ fetches[f].pc = "returned"
        /\ fetches[f].cacheWrites = 1
        /\ fetches[f].request.status = "OK"
        /\ fetches[f].text = "<rss>1</rss>"
        /\ cache[Sha1(fetches[f].url)] = Deflate("<rss>1</rss>")

(***************************************************************************)
(* Claims about FeedFetcherService.getLatestRequest, checked under SpecRead*)
(***************************************************************************)
\* the requests with a response other than 304 the query of call r saw
RecordedNon304(r) ==
    {i \in DOMAIN reads[r].seen :
        /\ reads[r].seen[i].url = reads[r].url
        /\ reads[r].seen[i].response # NoResponse
        /\ reads[r].seen[i].response.statusCode # 304}

\* C14: getLatestRequest(url) returns null exactly when no request with a
\* response other than 304 is recorded for the url; otherwise it returns the
\* most recently created such request, with the text inflated from the
\* cache entry under the response's cache key, or the empty string when
\* that entry is absent or the response has no cache key.
C14_LatestNon304Request ==
    \A r \in ReadIds :
        reads[r].pc = "returned"
        => LET seen == reads[r].seen
               m == RecordedNon304(r)
               result == reads[r].result
           IN  /\ (result = NullResult) = (m = {})
               /\ m # {} =>
                     /\ \E i \in m :
                           /\ \A j \in m : seen[j].createdAt <= seen[i].createdAt
                           /\ result.request.createdAt = seen[i].createdAt
                           /\ result.request.status = seen[i].status
                           /\ result.request.response = seen[i].response
                     /\ result.request.url = reads[r].url
                     /\ result.decodedResponseText =
                           IF result.request.response.redisCacheKey = NoKey
                              \/ reads[r].cacheRead = NoEntry
                           THEN ""
                           ELSE reads[r].cacheRead[3]

\* two requests with a 200 response are recorded for the url, and the call
\* has returned the later one with the cached body
C14_Witness ==
    \E r \in ReadIds :
        /\ reads[r].pc = "returned"
        /\ Cardinality(RecordedNon304(r)) = 2
        /\ reads[r].result # NullResult
        /\ reads[r].result.request.createdAt = 2
        /\ reads[r].result.decodedResponseText = "<rss>1</rss>"

(***************************************************************************)
(* Claims about DiscordMediumService, checked under SpecDelivery           *)
(***************************************************************************)
\* the calls the producer received from the delivery of slot d
CallsOf(d) ==
    [k \in 1..deliveries[d].calls |-> producerLog[deliveries[d].base + k]]
IsDeliverArticle(d) == deliveries[d].method = "deliverArticle"
IsDeliverTestArticle(d) == deliveries[d].method = "deliverTestArticle"
Targeted(d) ==
    \/ deliveries[d].settings.channel # NoTarget
    \/ deliveries[d].settings.webhook # NoTarget

\* C15: deliverArticle with neither a channel nor a webhook returns a state
\* with status Failed and error code NoChannelOrWebhook that carries the
\* delivery id and the medium id, and the producer is not called.
C15_NoTargetFails ==
    \A d \in DeliveryIds :
        (IsDeliverArticle(d) /\ ~Targeted(d))
        => /\ deliveries[d].pc = "returned"
           /\ deliveries[d].result.status = "Failed"
           /\ deliveries[d].result.errorCode = "NoChannelOrWebhook"
           /\ deliveries[d].result.id = deliveries[d].deliveryId
           /\ deliveries[d].result.mediumId = deliveries[d].mediumId
           /\ deliveries[d].calls = 0
           /\ Len(producerLog) = deliveries[d].base

\* a deliverArticle call without a target has returned
C15_Witness ==
    \E d \in DeliveryIds :
        /\ IsDeliverArticle(d)
        /\ ~Targeted(d)
        /\ deliveries[d].pc = "returned"
        /\ deliveries[d].result.errorCode = "NoChannelOrWebhook"

\* C16: deliverArticle with a target returns PendingDelivery only if the
\* producer accepted the enqueue call of every payload; if an enqueue call
\* throws, deliverArticle does not throw but returns Failed with error code
\* Internal and the thrown error's message.
C16_PendingOnlyIfAllAccepted ==
    \A d \in DeliveryIds :
        (IsDeliverArticle(d) /\ Targeted(d))
        => LET st == deliveries[d]
           IN  /\ st.pc \in {"enqueue", "returned"}
               /\ st.calls = Len(st.bodies)
               /\ \A k \in 1..st.calls : CallsOf(d)[k].kind = "enqueue"
               /\ (st.pc = "returned" /\ st.result.status = "PendingDelivery") =>
                     /\ st.calls >= 1
                     /\ \A k \in 1..st.calls : CallsOf(d)[k].settled
                     /\ st.err = NoErr
               /\ st.err # NoErr =>
                     /\ st.pc = "returned"
                     /\ st.result.status = "Failed"
                     /\ st.result.errorCode = "Internal"
                     /\ st.result.internalMessage = st.err.message
                     /\ st.result.id = st.deliveryId
               /\ st.pc = "returned" => st.result.status \in {"PendingDelivery", "Failed"}

\* deliverArticle has returned PendingDelivery while the accepted job has not
\* been sent to Discord yet
C16_Witness ==
    \E d \in DeliveryIds :
        /\ IsDeliverArticle(d)
        /\ deliveries[d].pc = "returned"
        /\ deliveries[d].result.status = "PendingDelivery"
        /\ deliveries[d].calls = 1
        /\ \A k \in 1..deliveries[d].calls : ~CallsOf(d)[k].delivered

\* C17: when the delivery settings configure a split policy and the rendered
\* content is longer than the limit, deliverArticle enqueues one payload per
\* split part: ceil(len/limit) enqueue calls, each with content no longer
\* than the limit.
C17_EnqueuesEverySplitPart ==
    \A d \in DeliveryIds :
        LET st == deliveries[d]
        IN  (/\ IsDeliverArticle(d)
             /\ Targeted(d)
             /\ st.settings.splitOptions # NoSplit
             /\ Len(st.settings.content) > st.settings.splitOptions.limit)
            => /\ st.calls = CeilDiv(Len(st.settings.content), st.settings.splitOptions.limit)
               /\ \A k \in 1..st.calls :
                     Len(CallsOf(d)[k].body.content) <= st.settings.splitOptions.limit

\* C19: deliverTestArticle never calls enqueue; it sends every generated
\* payload through the producer's fetch and returns the first payload with
\* the producer's response to it; with neither a webhook id nor a channel id
\* it throws and does not call the producer.
C19_TestArticleFetchesOnly ==
    \A d \in DeliveryIds :
        IsDeliverTestArticle(d)
        => LET st == deliveries[d]
               hasWebhookId == st.settings.webhook # NoTarget /\ st.settings.webhook.id # ""
               hasChannelId == st.settings.channel # NoTarget /\ st.settings.channel.id # ""
           IN  /\ \A k \in 1..st.calls : CallsOf(d)[k].kind = "fetch"
               /\ Len(producerLog) = st.base + st.calls
               /\ (hasWebhookId \/ hasChannelId) =>
                     /\ st.calls = Len(PayloadsFor(st.settings))
                     /\ \A k \in 1..st.calls :
                           /\ CallsOf(d)[k].body.content = PayloadsFor(st.settings)[k].content
                           /\ CallsOf(d)[k].body.embeds = PayloadsFor(st.settings)[k].embeds
                           /\ CallsOf(d)[k].url =
                                 IF hasWebhookId
                                 THEN getWebhookApiUrl(st.settings.webhook.id, st.settings.webhook.token)
                                 ELSE getChannelApiUrl(st.settings.channel.id)
                     /\ st.pc = "returned" =>
                           /\ st.result.apiPayload = CallsOf(d)[1].body
                           /\ st.result.result = st.results[1]
                           /\ st.result.result \in JobResponses
               /\ ~(hasWebhookId \/ hasChannelId) =>
                     /\ st.pc = "rejected"
                     /\ st.err.message = "No channel or webhook specified for Discord medium"
                     /\ st.calls = 0

\* deliverTestArticle has returned the answer of the producer's fetch to a
\* webhook payload
C19_Witness ==
    \E d \in DeliveryIds :
        /\ IsDeliverTestArticle(d)
        /\ deliveries[d].pc = "returned"
        /\ deliveries[d].settings.webhook # NoTarget
        /\ deliveries[d].result.apiPayload.username = "hook"
        /\ deliveries[d].result.result.state = "success"
        /\ Len(producerLog) = 1
        /\ producerLog[1].kind = "fetch"

RecordedOk(r) ==
    {i \in DOMAIN reads[r].seen :
        reads[r].seen[i].url = reads[r].url /\ reads[r].seen[i].status = "OK"}

\* C22: getLatestRequestHeaders(url) returns the headers recorded on the
\* response of the most recently created OK request of the url, and the
\* empty map when there is no OK request or its response has no headers;
\* requests of any other status never contribute.
C22_LatestOkHeaders ==
    \A r \in ReadIds :
        reads[r].pc = "returned"
        => LET seen == reads[r].seen
               m == RecordedOk(r)
           IN  /\ m = {} => reads[r].result = EmptyHeaders
               /\ m # {} =>
                     \E i \in m :
                        /\ \A j \in m : seen[j].createdAt <= seen[i].createdAt
                        /\ reads[r].result.etag = seen[i].response.headers.etag
                        /\ reads[r].result.lastModified = seen[i].response.headers.lastModified

\* two OK requests are recorded for the url, the earlier with an etag and
\* the later without, and the call returned the later one's empty headers
C22_Witness ==
    \E r \in ReadIds :
        /\ reads[r].pc = "returned"
        /\ Len(reads[r].seen) = 2
        /\ Cardinality(RecordedOk(r)) = 2
        /\ reads[r].seen[1].response.headers.etag = "W/1"
        /\ reads[r].seen[2].response.headers = EmptyHeaders
        /\ reads[r].result = EmptyHeaders

(***************************************************************************)
(* Claims about DiscordUsersService, checked under SpecDiscordUsers        *)
(***************************************************************************)
GuildsReturned == discord.pc = "returned" /\ discord.method = "getGuilds"
UserReturned == discord.pc = "returned" /\ discord.method = "getUser"

\* the user may manage the guild: they own it or the 16 bit of the
\* permissions is set
MayManage(guild) == guild.owner \/ guild.permissions % 32 >= 16

\* the position of the guild of the given id in the response of the API
PositionOf(id) == CHOOSE i \in DOMAIN discord.guilds : discord.guilds[i].id = id

\* C23: getGuilds returns exactly the guilds of the API response that the
\* user owns or whose permissions have the MANAGE_CHANNEL bit (16), in their
\* original relative order (owner = false with permissions 0 is left out,
\* owner = false with permissions 16 is kept), each with the benefits
\* (maxFeeds, webhooks) returned for its own id.
C23_GuildsWithPermission ==
    GuildsReturned
    => LET guilds == discord.guilds
           result == discord.result
       IN  /\ \A i \in DOMAIN guilds :
                 MayManage(guilds[i]) <=> \E k \in DOMAIN result : result[k].id = guilds[i].id
           /\ \A i \in DOMAIN guilds :
                 (~guilds[i].owner /\ guilds[i].permissions = 0)
                 => ~\E k \in DOMAIN result : result[k].id = guilds[i].id
           /\ \A i \in DOMAIN guilds :
                 (~guilds[i].owner /\ guilds[i].permissions = 16)
                 => \E k \in DOMAIN result : result[k].id = guilds[i].id
           /\ \A k \in DOMAIN result :
                 /\ \E i \in DOMAIN guilds : guilds[i].id = result[k].id
                 /\ LET guild == guilds[PositionOf(result[k].id)]
                    IN  /\ result[k].owner = guild.owner
                        /\ result[k].permissions = guild.permissions
                        /\ result[k].icon = guild.icon
                 /\ result[k].benefits =
                       [maxFeeds |-> BenefitsOfServer[result[k].id].maxFeeds,
                        webhooks |-> BenefitsOfServer[result[k].id].webhooks]
           /\ \A k, l \in DOMAIN result :
                 k < l => PositionOf(result[k].id) < PositionOf(result[l].id)

\* of two guilds the first is left out (not owned, permissions 15) and the
\* second is returned for its permissions alone, with the second's benefits
C23_Witness ==
    /\ GuildsReturned
    /\ Len(discord.guilds) = 2
    /\ ~discord.guilds[1].owner /\ discord.guilds[1].permissions = 15
    /\ ~discord.guilds[2].owner /\ discord.guilds[2].permissions = 48
    /\ discord.guilds[2].id = "guild_id_2"
    /\ Len(discord.result) = 1
    /\ discord.result[1].id = "guild_id_2"
    /\ discord.result[1].benefits = [maxFeeds |-> 20, webhooks |-> FALSE]

\* C24: getUser returns the user's id, username and avatar, an avatarUrl
\* built from id and avatar when an avatar is set, and a supporter block with
\* guilds, maxFeeds, maxGuilds and expireAt of the benefits that
\* getBenefitsOfDiscordUser returned, whatever benefits object that is.
C24_UserWithSupporterBlock ==
    UserReturned
    => LET user == discord.user
           benefits == discord.benefits
           result == discord.result
       IN  /\ result.id = user.id
           /\ result.username = user.username
           /\ result.avatar = user.avatar
           /\ user.avatar # Null
              => result.avatarUrl = <<"https://cdn.discordapp.com/avatars", user.id, user.avatar, "png">>
           /\ result.supporter # NoSupporter
           /\ result.supporter.guilds = benefits.guilds
           /\ result.supporter.maxFeeds = benefits.maxFeeds
           /\ result.supporter.maxGuilds = benefits.maxGuilds
           /\ result.supporter.expireAt = benefits.expireAt

(***************************************************************************)
(* Claims about the order of the bulk updates, checked under SpecSchedule  *)
(***************************************************************************)
\* the step in which the default-reset of a sync of cycle c is applied
ResetIssued(c) ==
    \/ cyc[c].pc = "syncRefreshRates" /\ cyc'[c].pc = "syncMaxDailyArticles"
    \/ cyc[c].pc = "syncMaxDailyArticles" /\ cyc'[c].pc = "findDebug"

\* the members of the groups of the snapshot the cycle took
GroupMembers(c) == {u \in Users : cyc[c].allBenefits[u].isSupporter}

\* C25: the per-group updates of a sync resolve in any order; the
\* default-reset is issued only when every one of them has completed, its
\* exclusion list holds the ids of every group, and it leaves the feeds of
\* every group member as they are.
C25_ResetAfterAllGroups ==
    [][\A c \in CycleIds :
          ResetIssued(c)
          => /\ cyc[c].pending = {}
             /\ cyc[c].specialDiscordUserIds = GroupMembers(c)
             /\ \A i \in DOMAIN feeds :
                   feeds[i].user \in GroupMembers(c) => feeds'[i] = feeds[i]]_vars

\* the refresh-rate reset of a snapshot of two groups has been applied, the
\* sync changed a feed, and a group member's feed holds the fast rate
C25_Witness ==
    \E c \in CycleIds :
        /\ cyc[c].rrDone
        /\ Cardinality(supportersBy(cyc[c].allBenefits, "refreshRateSeconds")) = 2
        /\ cyc[c].rrModified > 0
        /\ \E i \in DOMAIN feeds :
              /\ feeds[i].user \in GroupMembers(c)
              /\ feeds[i].refreshRateSeconds = 120

\* C26: when one per-group update of a sync rejects, the sync and the cycle
\* reject: the default-reset of that sync is never issued, the url query is
\* not run and no batch is handed over in that cycle; the other updates,
\* already issued, may still commit.
C26_GroupRejectionAbortsCycle ==
    \A c \in CycleIds :
        cyc[c].rejectedSync # "none"
        => /\ cyc[c].pc = "rejected"
           /\ cyc[c].rejectedSync = "syncRefreshRates" => ~cyc[c].rrDone
           /\ ~cyc[c].mdaDone
           /\ ~cyc[c].opened
           /\ cyc[c].urlsCursor = <<>>
           /\ cyc[c].dispatched = <<>>
           /\ cyc[c].resolved = 0

\* a cycle was rejected by a per-group update while another update of the
\* same sync, still in flight, is about to change a feed
C26_Witness ==
    \E c \in CycleIds :
        /\ cyc[c].pc = "rejected"
        /\ cyc[c].rejectedSync = "syncRefreshRates"
        /\ \E o \in orphans :
              /\ o.field = "refreshRateSeconds"
              /\ \E i \in DOMAIN feeds : GroupFilter(feeds[i], o.field, o.group)
        /\ \E i \in DOMAIN feeds :
              /\ feeds[i].user \notin cyc[c].specialDiscordUserIds
              /\ feeds[i].refreshRateSeconds # cyc[c].allBenefits[feeds[i].user].refreshRateSeconds

(***************************************************************************)
(* Claim about convergence, checked under SpecScheduleHealing              *)
(***************************************************************************)
\* a request of a cycle rejects in this step
FailureStep == \E c \in CycleIds : cyc[c].pc # "rejected" /\ cyc'[c].pc = "rejected"

\* entitled subscribers at their tier values, all others at the defaults
Converged ==
    \A i \in DOMAIN feeds :
        /\ feeds[i].refreshRateSeconds =
              Entitled(benefitsOfAllDiscordUsers, feeds[i].user,
                       "refreshRateSeconds", defaultRefreshRateSeconds)
        /\ feeds[i].maxDailyArticles =
              Entitled(benefitsOfAllDiscordUsers, feeds[i].user,
                       "maxDailyArticles", maxDailyArticlesDefault)

\* C27: after a sync that failed part-way, with the snapshot unchanged and no
\* further failures, the stored assignments reach the converged state with
\* the next complete run, and every later run leaves them there.
C27_SelfHealing == (<>[][~FailureStep]_vars) => <>[]Converged

\* an update of a failed sync is still in flight while a later cycle has
\* completed both syncs, changed a feed on the way and left the store converged
C27_Witness ==
    \E c \in CycleIds :
        /\ orphans # {}
        /\ cyc[c].mdaDone
        /\ cyc[c].rrModified > 0
        /\ Converged

(***************************************************************************)
(* Claim about concurrent calls for one url, checked under SpecFetchPair   *)
(***************************************************************************)
\* setFeedHtmlContent of the call of slot f takes effect in this step
CacheSetBy(f) == fetches'[f].cacheWrites = fetches[f].cacheWrites + 1

\* C28: two concurrent calls for one url write the same cache key; after each
\* setFeedHtmlContent the entry holds the body of the call that made it,
\* whichever request was created later, and nothing else changes the entry;
\* both calls persist their own request and response, and no persisted
\* record is lost or altered afterwards.
C28_LastCacheWriteWins ==
    [][/\ \A f \in FetchIds :
             CacheSetBy(f)
             => /\ fetches[f].response.redisCacheKey = Sha1(fetches[f].url)
                /\ cache'[Sha1(fetches[f].url)] = <<"deflate", "base64", fetches[f].text>>
       /\ cache' # cache => \E f \in FetchIds : CacheSetBy(f)
       /\ \A i \in DOMAIN requests : i \in DOMAIN requests' /\ requests'[i] = requests[i]
       /\ \A i \in DOMAIN responses : i \in DOMAIN responses' /\ responses'[i] = responses[i]
       /\ \A f \in FetchIds :
             (fetches[f].pc \notin {"idle", "flush", "returned", "rejected"}
              /\ fetches'[f].pc \in {"flush", "returned"})
             => /\ Len(requests') = Len(requests) + 1
                /\ requests'[Len(requests')].createdAt = fetches[f].request.createdAt
                /\ requests'[Len(requests')].status = fetches'[f].request.status
                /\ ReceivedResponse(f) =>
                      /\ Len(responses') = Len(responses) + 1
                      /\ responses'[Len(responses')].createdAt = fetches[f].request.createdAt
                      /\ responses'[Len(responses')].textHash = fetches'[f].response.textHash
      ]_vars

\* both calls are over and recorded; the call created first wrote the cache
\* last, so the entry holds its body and not that of the later request
C28_Witness ==
    /\ BothRecorded("f1", "f2")
    /\ fetches["f1"].request.createdAt < fetches["f2"].request.createdAt
    /\ fetches["f1"].cacheWrites = 1
    /\ fetches["f2"].cacheWrites = 1
    /\ fetches["f1"].text = "<rss>1</rss>"
    /\ fetches["f2"].text = ""
    /\ cache[Sha1(fetches["f1"].url)] = Deflate("<rss>1</rss>")
    /\ Cardinality(RequestsOf("f1")) = 1
    /\ Cardinality(RequestsOf("f2")) = 1

(***************************************************************************)
(* Claim about a 304 after a 200, checked under SpecNotModified            *)
(***************************************************************************)
\* the call of slot f got 200 with the body, cached it and returned; the call
\* of slot g for the same url started when that entry was in the cache, got
\* 304 and returned
NotModifiedAfterOk(f, g, body) ==
    /\ fetches[f].pc = "returned" /\ fetches[g].pc = "returned"
    /\ fetches[f].url = fetches[g].url
    /\ fetches[f].res # NoRes /\ fetches[f].res.status = 200
    /\ fetches[f].text = body
    /\ fetches[f].cacheWrites = 1
    /\ fetches[g].res # NoRes /\ fetches[g].res.status = NOT_MODIFIED
    /\ fetches[g].cacheBefore = <<"deflate", "base64", body>>
    /\ fetches[f].request.createdAt < fetches[g].request.createdAt

\* C30: after a fetch answered 200 with body X and a later fetch of the same
\* url answered 304, with no cache expiry in between, getLatestRequest(url)
\* returns the request of the 200 with decodedResponseText = X.
C30_NotModifiedKeepsBody ==
    \A f, g \in FetchIds : \A r \in ReadIds :
        (/\ NotModifiedAfterOk(f, g, "<rss>1</rss>")
         /\ reads[r].pc = "returned"
         /\ reads[r].url = fetches[f].url
         /\ Len(reads[r].seen) = 2)
        => /\ reads[r].result # NullResult
           /\ reads[r].result.request.createdAt = fetches[f].request.createdAt
           /\ reads[r].result.decodedResponseText = "<rss>1</rss>"

(***************************************************************************)
(* Claim about the order of the batches, checked under SpecSchedule        *)
(***************************************************************************)
\* every batch the cycle handed over has been answered by urlsHandler
AllBatchesResolved(c) == cyc[c].resolved = Len(cyc[c].dispatched)

\* C31: within one cycle the batches are emitted one after the other: a
\* batch is handed to urlsHandler, and the cursor is advanced, only when the
\* urlsHandler call of every earlier batch has resolved; when a call of
\* urlsHandler rejects the cycle rejects and hands over no further batch.
C31_BatchesSequential ==
    [][\A c \in CycleIds :
          cyc'[c] # cyc[c]
          => /\ cyc[c].pc = "rejected" => cyc'[c].pc = "idle"
             /\ cyc[c].pc \in {"urlsHandler", "urlsHandlerFinal"}
                => /\ ~AllBatchesResolved(c)
                   /\ cyc'[c].pc \in {"iterate", "done", "rejected"}
                   /\ cyc'[c].dispatched = cyc[c].dispatched
                   /\ cyc'[c].urlsCursor = cyc[c].urlsCursor
             /\ cyc'[c].pc # "idle"
                => /\ cyc'[c].dispatched # cyc[c].dispatched
                      => /\ AllBatchesResolved(c)
                         /\ Len(cyc'[c].dispatched) = Len(cyc[c].dispatched) + 1
                         /\ SubSeq(cyc'[c].dispatched, 1, Len(cyc[c].dispatched))
                               = cyc[c].dispatched
                   /\ cyc'[c].urlsCursor # cyc[c].urlsCursor => AllBatchesResolved(c)]_vars

\* the second batch of a cycle was rejected by urlsHandler after the first
\* had resolved, with urls left on the cursor
C31_Witness ==
    \E c \in CycleIds :
        /\ cyc[c].pc = "rejected"
        /\ Len(cyc[c].dispatched) = 2
        /\ cyc[c].resolved = 1
        /\ cyc[c].urlsCursor # <<>>

(***************************************************************************)
(* Claim about overlapping cycles, checked under SpecScheduleConcurrent    *)
(***************************************************************************)
\* the step in which the url query of cycle c runs
QueryRuns(c) == cyc[c].pc = "openCursor" /\ cyc'[c].pc = "iterate"

\* C32: when the cycles of different tiers overlap, at the moment a cycle
\* runs its url query every feed stores the refresh rate implied by the
\* snapshot this cycle fetched: the tier value for its supporters and the
\* default for everyone else.
C32_QuerySeesOwnSnapshot ==
    [][\A c \in CycleIds :
          QueryRuns(c)
          => \A i \in DOMAIN feeds :
                feeds[i].refreshRateSeconds =
                    Entitled(cyc[c].allBenefits, feeds[i].user,
                             "refreshRateSeconds", defaultRefreshRateSeconds)]_vars

(***************************************************************************)
(* Claim about the target of a delivery, checked under SpecDelivery        *)
(***************************************************************************)
\* C33: every deliverArticle call sends all of its payloads to one
\* endpoint: to the webhook url when the settings hold a webhook (with or
\* without a channel) and none to the channel url, to the channel url when
\* they hold a channel only; never some to one and some to the other.
C33_OneTarget ==
    \A d \in DeliveryIds :
        IsDeliverArticle(d)
        => LET settings == deliveries[d].settings
               calls == CallsOf(d)
           IN  /\ \A k, l \in DOMAIN calls : calls[k].url = calls[l].url
               /\ settings.webhook # NoTarget =>
                     \A k \in DOMAIN calls :
                        /\ calls[k].url[2] = "webhooks"
                        /\ calls[k].url[3] = settings.webhook.id
                        /\ calls[k].url[4] = settings.webhook.token
               /\ (settings.webhook = NoTarget /\ settings.channel # NoTarget) =>
                     \A k \in DOMAIN calls :
                        /\ calls[k].url[2] = "channels"
                        /\ calls[k].url[3] = settings.channel.id
                        /\ calls[k].url[4] = "messages"
               /\ \A k \in DOMAIN calls : calls[k].url[1] = "https://discord.com/api/v10"
               /\ Targeted(d) => deliveries[d].calls = Len(deliveries[d].bodies)

\* a delivery whose settings hold a webhook and a channel has enqueued its
\* payload to the webhook url
C33_Witness ==
    \E d \in DeliveryIds :
        /\ IsDeliverArticle(d)
        /\ deliveries[d].settings.webhook # NoTarget
        /\ deliveries[d].settings.webhook.id = "wh1"
        /\ deliveries[d].settings.channel # NoTarget
        /\ deliveries[d].calls = 1
        /\ CallsOf(d)[1].url = <<"https://discord.com/api/v10", "webhooks", "wh1", "tok">>
        /\ CallsOf(d)[1].settled

====
